---- MODULE Spec2Model ----
(***************************************************************************)
(* CQKD over a Kademlia DHT: the per-node role lease (CQKDNode), the       *)
(* worker executor loop, the DHT value layer, Bob's session handshake and  *)
(* Alice's 19-step key generation, as state machines.                      *)
(***************************************************************************)
EXTENDS Integers, Sequences, FiniteSets, TLC

(***************************************************************************)
(* Bounds of the model.                                                    *)
(***************************************************************************)
MaxTime == 3            \* the clock stops advancing here
MaxTTL == 2             \* timeout_seconds of a request_role call, in ticks
MaxSessions == 2        \* process ids 1..MaxSessions
ProcessedCap == 2       \* size above which processed_commands is trimmed
MaxDispatch == 3        \* commands written to one worker's cmd key
MaxLc == 2              \* desired key lengths 1..MaxLc
MaxAccepts == 4         \* values the first Bob script hands to receive_key
MaxLk == 3              \* photons of a sifted session: 1..MaxLk
MaxCacheIds == 3        \* node ids offered to the cache: 1..MaxCacheIds
CacheTTL == 1           \* NodeCache.ttl, in ticks
MaxChecks == 5          \* health checks counted per node
MaxScoreIds == 2        \* node ids offered to the cache whose counters are followed
MaxUses == 2            \* hits and misses counted over the cached nodes
MaxIdBits == 2          \* width of a node id, in bits
MaxRequired == 2        \* required_count of a discovery call
MaxFindRpcs == 1        \* FIND_NODE calls followed
MaxBatchNodes == 4      \* nodes handed to one batch health check
MaxBatchSize == 2       \* batch_size of a batch health check
MaxConcurrent == 2      \* concurrent_batches of a batch health check
MaxBootNodes == 2       \* bootstrap nodes of the manager
MaxBootFailures == 4    \* failures counted per bootstrap node
HealthCheckAge == 1     \* the 60 seconds after which a clean node is re-marked, in ticks
MaxNetworkSize == 120   \* network sizes 0..MaxNetworkSize
MaxBits == 9            \* length of a bit list handed to bits_to_bytes
MaxTasks == 5           \* calls of start_background_tasks that create tasks
MaxTargetCount == 14    \* target_count of an aggressive retry
MaxStatsHits == 1       \* hits counted by the cache as a whole

\* wait_new_process_id: `for _ in range(10)`
ValidationAttempts == 10

Contexts == {"c1", "c2"}            \* logical callers of one node's lease API
Sessions == 1..MaxSessions
TTLs == 1..MaxTTL

(***************************************************************************)
(* core/node_states.py                                                     *)
(***************************************************************************)
NodeState == {"off", "active", "busy", "error"}
NodeRole == {"none", "qsg", "bg", "qpp", "qpm", "qpc"}
QuantumRoles == NodeRole \ {"none"}
LeaseRoles == {"qsg", "qpm"}        \* roles the enumerated calls ask for
CapabilitySets == {QuantumRoles, {"qsg"}}

\* current_role = None
NoAssignment == [role |-> "none", process_id |-> 0, expires_at |-> 0]

VARIABLES
    \* ---- CQKDNode ----
    state,            \* self.state
    current_role,     \* self.current_role (NoAssignment for None)
    capabilities,     \* self.capabilities
    lock,             \* self._lock: "free" or the context holding it
    now,              \* datetime.now(), in ticks
    \* ---- callers of the lease API ----
    cpc,              \* per context: where it is in its call
    carg,             \* per context: the arguments of its request_role
    cret,             \* per context: what its last request_role returned
    \* ---- WorkerExecutor on that node ----
    dht_cmd,          \* the DHT value under cmd:{node_id}
    wpc,              \* where the executor loop is
    command,          \* command_data of the command being executed
    processed_commands,   \* self.processed_commands
    written,          \* result keys in the DHT, as <<process_id, key>>
    errors,           \* commands with a record under {process_id}:error:{cmd_id}
    dispatched,       \* commands some session has written to cmd:{node_id}
    role_granted,     \* what request_role returned for the command in hand
    denied_run,       \* history: commands whose handler's execute() was called
                      \* after request_role returned False
    marked,           \* history: commands ever added to processed_commands
    rerun,            \* history: commands invoked again after being marked
    contended,        \* history: commands written while the same role was
                      \* being executed for another session
    hstep,            \* the next output key the running handler writes
    qpc_lk,           \* lk of the session whose photons are sifted
    sorting_rule,     \* Alice's shuffled_indices; <<>> before STEP 10
    alice_bits,       \* Alice's list; each bit stands as the photon it came from
    bob_bits,         \* Bob's list of measured bits, likewise; <<>> before collected
    qpm_to_qpc,       \* the DHT entries {process_id}:qpm_to_qpc:{i}
    measurements,     \* QPC.execute: the list it collects
    late,             \* history: entries stored after QPC gave up on them
    sifting_result,   \* valid_positions under {process_id}:qpc_sifting_result
    alice_sifted,     \* Alice's sifted_bits
    bob_sifted,       \* Bob's sifted_bits
    results,          \* the DHT keys qsg_result:{i}, bg_alice_result:{i} written
    collected,        \* _collect_quantum_results: the next i; -1 once it raised
    notified,         \* {process_id}:alice_to_bob is written
    cache,            \* NodeCache._cache
    by_capability,    \* NodeCache._by_capability
    by_state,         \* NodeCache._by_state
    health_status,    \* HealthCheckManager._health_status
    routing_table,    \* the contacts of coordinator.server.protocol.router
    unhealthy,        \* history: nodes handed to _remove_unhealthy_nodes
    node_list,        \* allocate_nodes: available_nodes
    alloc_lk,         \* requirements: the count of every role
    alloc_idx,        \* allocate_nodes: idx
    allocation,       \* allocate_nodes: allocation, role -> list
    alloc_pc,         \* allocate_nodes: where the call is
    \* ---- NodeCache usage counters and SmartDiscoveryStrategy ----
    hit_count,        \* node id -> CachedNode.hit_count
    miss_count,       \* node id -> CachedNode.miss_count
    availability_score, \* node id -> CachedNode.availability_score, <<num, den>>
    cache_order,      \* the keys of _cache in insertion order
    cache_max_size,   \* NodeCache.max_size of the cache under test
    stats_hits,       \* NodeCache.stats["hits"]
    rpcs,             \* outbound discovery calls issued so far
    discovered,       \* what the last discover_nodes returned
    add_result,       \* what the last NodeCache.add returned
    evicted,          \* history: the id the last add evicted (0 for none), and
                      \* the ids that scored strictly higher at that moment
    \* ---- NodeDiscoveryService ----
    local_table,      \* the contacts of the local routing table, in bucket order
    find_target,      \* target_id of the last _iterative_find_node (-1 before)
    find_node_rpcs,   \* FIND_NODE calls sent so far
    found_nodes,      \* discovered_nodes of the last discover_nodes_for_roles
    asked,            \* required_count of the last call (0 before)
    short_circuit,    \* the last call answered from the local routing table alone
    \* ---- HealthCheckManager._execute_batch_health_check ----
    batch_size,       \* the batch_size argument
    concurrent_batches, \* params['concurrent_batches']
    batches,          \* per batch: its nodes, where process_batch is, checks running
    semaphore,        \* the value of asyncio.Semaphore(concurrent_batches)
    hc_results,       \* nodes whose result has been collected
    \* ---- BootstrapManager ----
    failure_count,    \* bootstrap node -> BootstrapNode.failure_count
    is_healthy,       \* bootstrap node -> BootstrapNode.is_healthy
    last_health_check, \* bootstrap node -> BootstrapNode.last_health_check, in ticks
    since_success,    \* history: failures reported since the last success
    last_report,      \* history: the last report made for the node
    \* ---- Settings.calculate_adaptive_kademlia_params ----
    network_size,     \* the network_size argument of the last call
    adaptive_params,  \* what the last call returned
    \* ---- KeyGenerationOrchestrator.bits_to_bytes / bytes_to_bits ----
    bits_in,          \* the bit list handed to bits_to_bytes
    packed,           \* the bytes it returned (<<-1>> before the call)
    unpacked,         \* what bytes_to_bits made of them (<<-1>> before the call)
    \* ---- one polling loop on a DHT key ----
    wait_loop,        \* which loop is polling
    wait_attempt,     \* retrieve_data calls that found nothing so far
    wait_key,         \* TRUE once the producer has stored the key
    wait_outcome,     \* "waiting", "returned", "TimeoutError" or "placeholder"
    wait_session,     \* "running", "continues", "aborted" or "command_failed"
    \* ---- SmartDiscoveryStrategy's background tasks ----
    has_cache,        \* self.cache is set
    bg_tasks,         \* every pair of tasks created: the state of each
    refresh_handle,   \* self._refresh_task: index into bg_tasks, 0 for None
    cleanup_handle,   \* self._cleanup_task, likewise
    bg_started,       \* the orchestrator's _background_tasks_started
    bg_stopped,       \* history: stop_background_tasks was the last call
    \* ---- who holds the lease ----
    holder,           \* history: the context whose request_role set current_role
    \* ---- Bob's listener ----
    stale,            \* history: sessions logged as bob_stale_process_id_ignored
    \* ---- NodeDiscoveryService: the aggressive retry ----
    ALPHA,            \* self.ALPHA
    K,                \* self.K
    rpc,              \* per call: "idle", "crawl" (awaiting spider.find) or "returned"
    original_alpha,   \* per call: its local original_alpha
    original_k,       \* per call: its local original_k
    retry_result,     \* per call: "none", "nodes" or "empty"
    running,          \* self.running
    cancelled_cmd,    \* history: the command whose handler was at an await when
                      \* the loop's task was cancelled
    raised,           \* history: commands whose handler raised
    retried,          \* history: commands executed again after their handler
                      \* had raised
    \* ---- the DHT as its clients see it ----
    store,            \* key -> value held by the Kademlia server
    got,              \* what the last retrieve_data returned, and for which key
    deleted,          \* history: keys deleted and not written since
    \* ---- Bob's session loop ----
    next_sid,         \* sessions the /generate-key endpoint has opened so far
    bpc,              \* where Bob's loop is
    bob_pid,          \* the value Bob read from cqkd_process_id
    attempts,         \* iterations of the validation window used
    last_seen,        \* last_seen_pid
    accepted,         \* history: the values Bob passed to receive_key, in order
    superseded,       \* history: sessions overwritten on cqkd_process_id before
                      \* Bob had accepted them
    \* ---- Alice.generate_key ----
    apc,              \* where generate_key is
    orch_pid,         \* orchestrator.process_id (0 before the first request)
    alice_pid,        \* Alice.process_id (0 for None)
    lc,               \* desired_length_bits
    lk,               \* requirements['initial_key_length']
    alpha,            \* requirements['total']
    available_nodes,  \* len(available_nodes); -1 for None, -2 before discovery
    valid_positions,  \* len(valid_positions); -1 before sifting
    final_key_bits,   \* len(final_key_bits); -1 while no key is built
    err,              \* the exception generate_key is raising
    allocated,        \* allocate_nodes has returned an allocation
    commanded         \* _dispatch_quantum_operations has been entered

leaseVars == <<state, current_role, capabilities, lock, now, cpc, carg, cret>>
loopVars == <<running, cancelled_cmd, raised, retried>>
workerVars == <<dht_cmd, wpc, command, processed_commands, written, errors,
                dispatched, role_granted, denied_run, marked, rerun, contended, hstep,
                loopVars>>

dhtVars == <<store, got, deleted>>
bobVars == <<next_sid, bpc, bob_pid, attempts, last_seen, accepted, superseded>>
aliceVars == <<apc, orch_pid, alice_pid, lc, lk, alpha, available_nodes,
               valid_positions, final_key_bits, err, allocated, commanded>>

collectVars == <<results, collected, notified>>
siftVars == <<qpc_lk, sorting_rule, alice_bits, bob_bits, qpm_to_qpc, measurements,
              late, sifting_result, alice_sifted, bob_sifted, collectVars>>
cacheVars == <<cache, by_capability, by_state>>
healthVars == <<health_status, routing_table, unhealthy>>
allocVars == <<node_list, alloc_lk, alloc_idx, allocation, alloc_pc>>
scoreVars == <<hit_count, miss_count, availability_score, cache_order, cache_max_size,
               stats_hits, rpcs, discovered, add_result, evicted>>
discVars == <<local_table, find_target, find_node_rpcs, found_nodes, asked, short_circuit>>
batchVars == <<batch_size, concurrent_batches, batches, semaphore, hc_results>>
bootVars == <<failure_count, is_healthy, last_health_check, since_success, last_report>>
adaptVars == <<network_size, adaptive_params>>
bitsVars == <<bits_in, packed, unpacked>>
waitVars == <<wait_loop, wait_attempt, wait_key, wait_outcome, wait_session>>
taskVars == <<has_cache, bg_tasks, refresh_handle, cleanup_handle, bg_started, bg_stopped>>
ownerVars == <<holder>>
staleVars == <<stale>>
retryVars == <<ALPHA, K, rpc, original_alpha, original_k, retry_result>>
restVars == <<siftVars, cacheVars, healthVars, allocVars, scoreVars, discVars, batchVars, bootVars, adaptVars, bitsVars, waitVars, taskVars, ownerVars, staleVars, retryVars>>

vars == <<leaseVars, workerVars, dhtVars, bobVars, aliceVars, restVars>>

\* what the lease API and the executor loop leave alone
sessionVars == <<dhtVars, bobVars, aliceVars, restVars>>

\* NodeRoleAssignment.is_expired
is_expired(a) == now > a.expires_at

\* `self.current_role and not self.current_role.is_expired()`
RoleHeld == current_role # NoAssignment /\ ~is_expired(current_role)

\* the third denial of request_role with the expiry test forgotten
DeniedBusyNoLeaseTest == FALSE

\* request_role: `if self.current_role and not self.current_role.is_expired()`
DeniedBusy == RoleHeld

\* the denials with the capability test left out
RequestDeniedNoCapabilityTest(role) ==
    \/ state # "active"
    \/ DeniedBusy

\* request_role: the three denials, in the code's order
RequestDenied(role) ==
    \/ state # "active"
    \/ role \notin capabilities
    \/ DeniedBusy

\* request_role: the assignment it creates
NewAssignment(role, pid, ttl) ==
    [role |-> role, process_id |-> pid, expires_at |-> now + ttl]

NoArg == [role |-> "none", process_id |-> 0, ttl |-> 0]

\* no dict under cmd:{node_id}
NoCommand == [process_id |-> 0, role |-> "none"]

(***************************************************************************)
(* Python values that travel through the DHT.  A value is a record         *)
(* [t, v, n]: t its type; for a str, n = 0 is the literal text v, n > 0    *)
(* the process id "cqkd_<token of session n>" and n = -1 the JSON text of  *)
(* the dict named v.                                                       *)
(***************************************************************************)
None == [t |-> "none", v |-> "", n |-> 0]
Str(text) == [t |-> "str", v |-> text, n |-> 0]
PyInt(i) == [t |-> "int", v |-> "", n |-> i]
Dict(name) == [t |-> "dict", v |-> name, n |-> 0]

\* KeyGenerationOrchestrator._generate_process_id, for session s
Pid(s) == [t |-> "str", v |-> "cqkd_", n |-> s]

\* delete_data's marker
Deleted == Str("__DELETED__")

\* json.dumps of a dict
json_dumps(val) == [t |-> "str", v |-> val.v, n |-> -1]

\* the texts json.loads accepts; any other raises JSONDecodeError
JsonDecodes(x) == x.n = -1 \/ (x.n = 0 /\ x.v = "7")

\* json.loads of a text it accepts
json_loads(x) == IF x.n = -1 THEN Dict(x.v) ELSE PyInt(7)

\* `if value:`
Truthy(val) ==
    CASE val.t = "none" -> FALSE
      [] val.t = "str"  -> ~(val.v = "" /\ val.n = 0)
      [] val.t = "int"  -> val.n # 0
      [] OTHER          -> TRUE

\* DHT keys, as <<session, name>>; session 0 for the well-known key
ProcessIdKey == <<0, "cqkd_process_id">>
NotifKey(p) == <<p.n, "alice_to_bob">>
CompletionKey(s) == <<s, "completion">>
Keys == {ProcessIdKey} \cup {<<s, "alice_to_bob">> : s \in Sessions}
                       \cup {<<s, "completion">> : s \in Sessions}

\* store_data: what it hands to server.set
value_to_store(value) == IF value.t = "dict" THEN json_dumps(value) ELSE value

\* server.get: None for a key nobody has set
ServerGet(key) == IF key \in DOMAIN store THEN store[key] ELSE None

\* retrieve_data when server.get returns
retrieve_data(key) ==
    LET value == ServerGet(key) IN
    IF value.t = "str"
        THEN IF JsonDecodes(value) THEN json_loads(value) ELSE value
        ELSE value

NoGet == [key |-> <<0, "">>, value |-> None]
NoError == [kind |-> "none", found |-> 0, required |-> 0]

\* the DHT, Bob and Alice parts at rest
DhtIdle ==
    /\ store = [k \in Keys |-> None]
    /\ got = NoGet
    /\ deleted = {}

BobIdle ==
    /\ next_sid = 0
    /\ bpc = "poll"
    /\ bob_pid = None
    /\ attempts = 0
    /\ last_seen = None
    /\ accepted = <<>>
    /\ superseded = {}

AliceIdle ==
    /\ apc = "idle"
    /\ orch_pid = 0
    /\ alice_pid = 0
    /\ lc = 0
    /\ lk = 0
    /\ alpha = 0
    /\ available_nodes = -2
    /\ valid_positions = -1
    /\ final_key_bits = -1
    /\ err = NoError
    /\ allocated = FALSE
    /\ commanded = FALSE

\* no qpm_to_qpc entry under the key
Missing == [operation_id |-> -1, bases_match |-> FALSE]
NoResult == <<-1>>
NoBits == <<-1>>

SiftIdle ==
    /\ qpc_lk = 0
    /\ sorting_rule = <<>>
    /\ alice_bits = <<>>
    /\ bob_bits = <<>>
    /\ qpm_to_qpc = <<>>
    /\ measurements = <<>>
    /\ late = {}
    /\ sifting_result = NoResult
    /\ alice_sifted = NoBits
    /\ bob_sifted = NoBits
    /\ results = {}
    /\ collected = 0
    /\ notified = FALSE

CacheIdle ==
    /\ cache = <<>>
    /\ by_capability = <<>>
    /\ by_state = <<>>

HealthIdle ==
    /\ health_status = <<>>
    /\ routing_table = {}
    /\ unhealthy = {}

AllocIdle ==
    /\ node_list = <<>>
    /\ alloc_lk = 0
    /\ alloc_idx = 0
    /\ allocation = <<>>
    /\ alloc_pc = "idle"

ScoreIdle ==
    /\ hit_count = <<>>
    /\ miss_count = <<>>
    /\ availability_score = <<>>
    /\ cache_order = <<>>
    /\ cache_max_size = 0
    /\ stats_hits = 0
    /\ rpcs = 0
    /\ discovered = <<>>
    /\ add_result = "none"
    /\ evicted = <<>>

DiscIdle ==
    /\ local_table = <<>>
    /\ find_target = -1
    /\ find_node_rpcs = 0
    /\ found_nodes = <<>>
    /\ asked = 0
    /\ short_circuit = FALSE

BatchIdle ==
    /\ batch_size = 0
    /\ concurrent_batches = 0
    /\ batches = <<>>
    /\ semaphore = 0
    /\ hc_results = 0

BootIdle ==
    /\ failure_count = <<>>
    /\ is_healthy = <<>>
    /\ last_health_check = <<>>
    /\ since_success = <<>>
    /\ last_report = <<>>

AdaptIdle ==
    /\ network_size = 0
    /\ adaptive_params = <<>>

BitsIdle ==
    /\ bits_in = <<>>
    /\ packed = <<-1>>
    /\ unpacked = <<-1>>

WaitIdle ==
    /\ wait_loop = "none"
    /\ wait_attempt = 0
    /\ wait_key = FALSE
    /\ wait_outcome = "idle"
    /\ wait_session = "idle"

TaskIdle ==
    /\ has_cache = FALSE
    /\ bg_tasks = <<>>
    /\ refresh_handle = 0
    /\ cleanup_handle = 0
    /\ bg_started = FALSE
    /\ bg_stopped = FALSE

OwnerIdle == holder = "none"

StaleIdle == stale = {}

RetryCalls == {"r1", "r2"}        \* calls of the retry that may overlap

\* the class attributes ALPHA and K of NodeDiscoveryService
DefaultAlpha == 5
DefaultK == 20

RetryIdle ==
    /\ ALPHA = DefaultAlpha
    /\ K = DefaultK
    /\ rpc = [c \in RetryCalls |-> "idle"]
    /\ original_alpha = [c \in RetryCalls |-> 0]
    /\ original_k = [c \in RetryCalls |-> 0]
    /\ retry_result = [c \in RetryCalls |-> "none"]

RestIdle == SiftIdle /\ CacheIdle /\ HealthIdle /\ AllocIdle /\ ScoreIdle /\ DiscIdle /\ BatchIdle /\ BootIdle /\ AdaptIdle /\ BitsIdle /\ WaitIdle /\ TaskIdle /\ OwnerIdle /\ StaleIdle /\ RetryIdle

SessionIdle == DhtIdle /\ BobIdle /\ AliceIdle /\ RestIdle

(***************************************************************************)
(* The lease API under arbitrary callers.                                  *)
(***************************************************************************)
\* the worker part at rest
WorkerIdle ==
    /\ dht_cmd = NoCommand
    /\ wpc = "poll"
    /\ command = NoCommand
    /\ processed_commands = {}
    /\ written = {}
    /\ errors = {}
    /\ dispatched = {}
    /\ role_granted = "none"
    /\ denied_run = {}
    /\ marked = {}
    /\ rerun = {}
    /\ contended = {}
    /\ hstep = 0
    /\ running = TRUE
    /\ cancelled_cmd = NoCommand
    /\ raised = {}
    /\ retried = {}

InitLease ==
    /\ WorkerIdle
    /\ SessionIdle
    /\ state = "off"
    /\ current_role = NoAssignment
    /\ capabilities \in CapabilitySets
    /\ lock = "free"
    /\ now = 0
    /\ cpc = [c \in Contexts |-> "idle"]
    /\ carg = [c \in Contexts |-> NoArg]
    /\ cret = [c \in Contexts |-> "none"]

\* CQKDNode.start: listen succeeds or raises
Start(c) ==
    /\ cpc[c] = "idle"
    /\ \E ok \in BOOLEAN : state' = IF ok THEN "active" ELSE "error"
    /\ UNCHANGED <<current_role, capabilities, lock, now, cpc, carg, cret>>
    /\ UNCHANGED <<workerVars, sessionVars>>

\* a context calls request_role(role, process_id, timeout_seconds)
CallRequestRole(c) ==
    /\ cpc[c] = "idle"
    /\ \E role \in LeaseRoles, pid \in Sessions, ttl \in TTLs :
          carg' = [carg EXCEPT ![c] = [role |-> role, process_id |-> pid, ttl |-> ttl]]
    /\ cpc' = [cpc EXCEPT ![c] = "request_lock"]
    /\ cret' = [cret EXCEPT ![c] = "none"]
    /\ UNCHANGED <<state, current_role, capabilities, lock, now>>
    /\ UNCHANGED <<workerVars, sessionVars>>

\* `async with self._lock` of request_role
RequestAcquire(c) ==
    /\ cpc[c] = "request_lock"
    /\ lock = "free"
    /\ lock' = c
    /\ cpc' = [cpc EXCEPT ![c] = "request_body"]
    /\ UNCHANGED <<state, current_role, capabilities, now, carg, cret>>
    /\ UNCHANGED <<workerVars, sessionVars>>

\* the body of request_role, to its return (the lock is released on the way out)
RequestBodyStep(c) ==
    /\ cpc[c] = "request_body"
    /\ lock = c
    /\ IF RequestDenied(carg[c].role)
          THEN /\ cret' = [cret EXCEPT ![c] = "false"]
               /\ UNCHANGED <<state, current_role>>
          ELSE /\ current_role' = NewAssignment(carg[c].role, carg[c].process_id, carg[c].ttl)
               /\ state' = "busy"
               /\ cret' = [cret EXCEPT ![c] = "true"]
    /\ lock' = "free"
    /\ cpc' = [cpc EXCEPT ![c] = "idle"]
    /\ carg' = [carg EXCEPT ![c] = NoArg]
    /\ UNCHANGED <<capabilities, now>>

RequestBody(c) == RequestBodyStep(c) /\ UNCHANGED <<workerVars, sessionVars>>

\* a context calls release_role()
CallReleaseRole(c) ==
    /\ cpc[c] = "idle"
    /\ cpc' = [cpc EXCEPT ![c] = "release_lock"]
    /\ UNCHANGED <<state, current_role, capabilities, lock, now, carg, cret>>
    /\ UNCHANGED <<workerVars, sessionVars>>

\* `async with self._lock` of release_role
ReleaseAcquire(c) ==
    /\ cpc[c] \in {"release_lock", "stop_lock"}
    /\ lock = "free"
    /\ lock' = c
    /\ cpc' = [cpc EXCEPT ![c] = IF cpc[c] = "stop_lock" THEN "stop_body" ELSE "release_body"]
    /\ UNCHANGED <<state, current_role, capabilities, now, carg, cret>>
    /\ UNCHANGED <<workerVars, sessionVars>>

\* the body of release_role
ReleaseBodyStep(c) ==
    /\ cpc[c] = "release_body"
    /\ lock = c
    /\ current_role' = NoAssignment
    /\ state' = "active"
    /\ lock' = "free"
    /\ cpc' = [cpc EXCEPT ![c] = "idle"]
    /\ UNCHANGED <<capabilities, now, carg, cret>>

ReleaseBody(c) == ReleaseBodyStep(c) /\ UNCHANGED <<workerVars, sessionVars>>

\* a context calls stop()
CallStop(c) ==
    /\ cpc[c] = "idle"
    /\ cpc' = [cpc EXCEPT ![c] = "stop_lock"]
    /\ UNCHANGED <<state, current_role, capabilities, lock, now, carg, cret>>
    /\ UNCHANGED <<workerVars, sessionVars>>

\* stop: release_role's body, then server.stop() and state = OFF, with no
\* suspension point in between
StopBodyStep(c) ==
    /\ cpc[c] = "stop_body"
    /\ lock = c
    /\ current_role' = NoAssignment
    /\ state' = "off"
    /\ lock' = "free"
    /\ cpc' = [cpc EXCEPT ![c] = "idle"]
    /\ UNCHANGED <<capabilities, now, carg, cret>>

StopBody(c) == StopBodyStep(c) /\ UNCHANGED <<workerVars, sessionVars>>

\* time passes
Tick ==
    /\ now < MaxTime
    /\ now' = now + 1
    /\ UNCHANGED <<state, current_role, capabilities, lock, cpc, carg, cret>>
    /\ UNCHANGED <<workerVars, sessionVars>>

NextLease ==
    \/ \E c \in Contexts : Start(c)
    \/ \E c \in Contexts : CallRequestRole(c)
    \/ \E c \in Contexts : RequestAcquire(c)
    \/ \E c \in Contexts : RequestBody(c)
    \/ \E c \in Contexts : CallReleaseRole(c)
    \/ \E c \in Contexts : ReleaseAcquire(c)
    \/ \E c \in Contexts : ReleaseBody(c)
    \/ \E c \in Contexts : CallStop(c)
    \/ \E c \in Contexts : StopBody(c)
    \/ Tick

SpecLease == InitLease /\ [][NextLease]_vars

\* C1: on one node, whatever the interleaving of the callers, a request_role
\* call returns True only when no unexpired assignment exists at that moment,
\* so at most one call succeeds while a lease is held.
C1_LeaseMutualExclusion ==
    [][\A c \in Contexts :
          (cpc[c] = "request_body" /\ cret'[c] = "true") => ~RoleHeld]_vars

\* one caller holds the lease and a second caller's request, for a role the
\* node is capable of, has the lock and is about to be decided
C1_Witness ==
    \E c, d \in Contexts :
        /\ c # d
        /\ cret[c] = "true"
        /\ RoleHeld
        /\ state = "active"
        /\ cpc[d] = "request_body"
        /\ carg[d].role \in capabilities

\* NodeInfo.can_accept_role, on the NodeInfo that get_info builds from the node
can_accept_role(role) ==
    /\ state = "active"
    /\ role \in capabilities
    /\ (current_role = NoAssignment \/ is_expired(current_role))

\* the step in which context c's request_role decides and returns
RequestReturns(c) == cpc[c] = "request_body" /\ cpc'[c] = "idle"

\* the step in which context c's release_role (not the one inside stop) runs
ReleaseReturns(c) == cpc[c] = "release_body" /\ cpc'[c] = "idle"

\* the step in which context c's stop runs
StopReturns(c) == cpc[c] = "stop_body" /\ cpc'[c] = "idle"

\* C15: request_role returns True and installs the assignment exactly when
\* the node is ACTIVE, has the role among its capabilities and holds no
\* unexpired assignment; otherwise it returns False and leaves state and
\* current_role as they were.
C15_RequestGrantedIff ==
    [][\A c \in Contexts :
          RequestReturns(c) =>
             IF can_accept_role(carg[c].role)
                THEN /\ cret'[c] = "true"
                     /\ state' = "busy"
                     /\ current_role' = [role |-> carg[c].role,
                                         process_id |-> carg[c].process_id,
                                         expires_at |-> now + carg[c].ttl]
                ELSE /\ cret'[c] = "false"
                     /\ state' = state
                     /\ current_role' = current_role]_vars

\* one request was granted, and another, for a role outside the node's
\* capabilities, has the lock on an ACTIVE node without a lease
C15_Witness ==
    \E c, d \in Contexts :
        /\ c # d
        /\ cret[c] = "true"
        /\ cpc[d] = "request_body"
        /\ carg[d].role \notin capabilities
        /\ state = "active"
        /\ current_role = NoAssignment

\* C16: state is BUSY exactly when current_role is set.
C16_BusyIffRoleSet == (state = "busy") <=> (current_role # NoAssignment)

\* C17: once a lease has expired without a release, the next request_role
\* for a role among the node's capabilities is granted.
C17_ExpiredLeaseDoesNotBlock ==
    [][\A c \in Contexts :
          (/\ RequestReturns(c)
           /\ current_role # NoAssignment
           /\ is_expired(current_role)
           /\ state \in {"active", "busy"}
           /\ carg[c].role \in capabilities)
          => cret'[c] = "true"]_vars

\* C18: the state changes only OFF->ACTIVE and OFF->ERROR by start,
\* ACTIVE->BUSY by a granted request_role, BUSY->ACTIVE by release_role and
\* ACTIVE/BUSY->OFF by stop; release_role changes it only from BUSY to ACTIVE.
C18_OnlyListedTransitions ==
    [][state' # state =>
          \/ /\ state = "off" /\ state' \in {"active", "error"}
             /\ cpc' = cpc
          \/ /\ state = "active" /\ state' = "busy"
             /\ \E c \in Contexts : RequestReturns(c)
          \/ /\ state = "busy" /\ state' = "active"
             /\ \E c \in Contexts : ReleaseReturns(c)
          \/ /\ state \in {"active", "busy"} /\ state' = "off"
             /\ \E c \in Contexts : StopReturns(c)]_vars

(***************************************************************************)
(* protocol/worker.py: the executor loop of one worker node, the sessions  *)
(* that write commands to cmd:{node_id}, and the quantum handlers.         *)
(***************************************************************************)
WorkerRoles == {"qsg", "qpm"}       \* roles the enumerated commands carry
Commands == [process_id : Sessions, role : WorkerRoles]

\* the keys a handler stores, in the order of its store_data calls
HandlerKeys(role) ==
    CASE role = "qsg" -> <<"qsg_result", "qsg_to_qpp">>
      [] role = "bg"  -> <<"bg_alice_result", "bg_to_qpp">>
      [] role = "qpp" -> <<"qpp_to_qpm">>
      [] role = "qpm" -> <<"qpm_result", "qpm_to_qpc">>
      [] OTHER        -> <<>>

\* `set(list(self.processed_commands)[-500:])`: half the capacity
ProcessedKeep == ProcessedCap \div 2

\* the sets processed_commands may become after the trim: a set iterates in
\* hash order, so the last 500 of list(set) are any 500 of its members
Trim(p) ==
    IF Cardinality(p) > ProcessedCap
        THEN {q \in SUBSET p : Cardinality(q) = ProcessedKeep}
        ELSE {p}

\* CQKDNode.release_role, body
release_role ==
    /\ current_role' = NoAssignment
    /\ state' = "active"

\* a finally block that releases nothing
WorkerFinallyKeepsRole == UNCHANGED <<state, current_role>>

\* _execute_command: `finally: await self.node.release_role()`
WorkerFinallyRelease == release_role

InitWorker ==
    /\ WorkerIdle
    /\ SessionIdle
    /\ state = "active"
    /\ current_role = NoAssignment
    /\ capabilities \in CapabilitySets
    /\ lock = "free"
    /\ now = 0
    /\ cpc = [c \in Contexts |-> "idle"]
    /\ carg = [c \in Contexts |-> NoArg]
    /\ cret = [c \in Contexts |-> "none"]

nodeRest == <<capabilities, lock, now, cpc, carg, cret, sessionVars>>

\* a session (Alice's dispatch, Bob's BG dispatch) stores a command under
\* cmd:{node_id}
Dispatch(s, r) ==
    LET cmd == [process_id |-> s, role |-> r] IN
    /\ cmd \notin dispatched
    /\ Cardinality(dispatched) < MaxDispatch
    /\ dht_cmd' = cmd
    /\ dispatched' = dispatched \cup {cmd}
    /\ contended' = IF RoleHeld /\ current_role.role = r /\ current_role.process_id # s
                       THEN contended \cup {cmd} ELSE contended
    /\ UNCHANGED <<wpc, command, processed_commands, written, errors,
                   role_granted, denied_run, marked, rerun, hstep>>
    /\ UNCHANGED <<state, current_role, nodeRest>>
    /\ UNCHANGED loopVars

\* _poll_and_execute: a dict is under the key and its cmd_id is not in
\* processed_commands
Poll ==
    /\ wpc = "poll"
    /\ running
    /\ dht_cmd # NoCommand
    /\ dht_cmd \notin processed_commands
    /\ command' = dht_cmd
    /\ wpc' = "request"
    /\ UNCHANGED <<dht_cmd, processed_commands, written, errors, dispatched,
                   role_granted, denied_run, marked, rerun, contended, hstep>>
    /\ UNCHANGED <<state, current_role, nodeRest>>
    /\ UNCHANGED loopVars

\* _execute_command: `await self.node.request_role(...)`, its result dropped
WorkerRequestRole ==
    /\ wpc = "request"
    /\ lock = "free"
    /\ IF RequestDenied(command.role)
          THEN /\ role_granted' = "false"
               /\ UNCHANGED <<state, current_role>>
          ELSE /\ current_role' = NewAssignment(command.role, command.process_id, MaxTTL)
               /\ state' = "busy"
               /\ role_granted' = "true"
    /\ wpc' = "execute"
    /\ UNCHANGED <<dht_cmd, command, processed_commands, written, errors,
                   dispatched, denied_run, marked, rerun, contended, hstep>>
    /\ UNCHANGED nodeRest
    /\ UNCHANGED loopVars

\* component_class.execute(...): the handler's role check
HandlerCheckStep ==
    /\ wpc = "execute"
    /\ denied_run' = IF role_granted = "false" THEN denied_run \cup {command}
                                                ELSE denied_run
    /\ rerun' = IF command \in marked THEN rerun \cup {command} ELSE rerun
    /\ IF current_role = NoAssignment \/ current_role.role # command.role
          THEN wpc' = "except" /\ hstep' = 0
          ELSE wpc' = "handler" /\ hstep' = 1
    /\ UNCHANGED <<dht_cmd, command, processed_commands, written, errors,
                   dispatched, role_granted, marked, contended>>
    /\ UNCHANGED <<state, current_role, nodeRest>>

HandlerCheck ==
    /\ HandlerCheckStep
    /\ UNCHANGED loopVars

\* the same step with the history of raised and retried commands kept
HandlerCheckRecorded ==
    /\ HandlerCheckStep
    /\ retried' = IF command \in raised THEN retried \cup {command} ELSE retried
    /\ raised' = IF wpc' = "except" THEN raised \cup {command} ELSE raised
    /\ UNCHANGED <<running, cancelled_cmd>>

\* the handler stores its next output key
HandlerWrite ==
    /\ wpc = "handler"
    /\ hstep <= Len(HandlerKeys(command.role))
    /\ written' = written \cup {<<command.process_id, HandlerKeys(command.role)[hstep]>>}
    /\ IF hstep = Len(HandlerKeys(command.role))
          THEN wpc' = "handler_release" /\ hstep' = 0
          ELSE wpc' = "handler" /\ hstep' = hstep + 1
    /\ UNCHANGED <<dht_cmd, command, processed_commands, errors, dispatched,
                   role_granted, denied_run, marked, rerun, contended>>
    /\ UNCHANGED <<state, current_role, nodeRest>>
    /\ UNCHANGED loopVars

\* the handler raises: _wait_for_data times out (QPP, QPM) or store_data fails
HandlerRaisesStep ==
    /\ wpc = "handler"
    /\ wpc' = "except"
    /\ hstep' = 0
    /\ UNCHANGED <<dht_cmd, command, processed_commands, written, errors, dispatched,
                   role_granted, denied_run, marked, rerun, contended>>
    /\ UNCHANGED <<state, current_role, nodeRest>>

HandlerRaises ==
    /\ HandlerRaisesStep
    /\ UNCHANGED loopVars

\* the same step with the history of raised commands kept
HandlerRaisesRecorded ==
    /\ HandlerRaisesStep
    /\ raised' = raised \cup {command}
    /\ UNCHANGED <<running, retried, cancelled_cmd>>

\* the handler's own `await node.release_role()` before it returns
HandlerRelease ==
    /\ wpc = "handler_release"
    /\ lock = "free"
    /\ release_role
    /\ wpc' = "finally"
    /\ UNCHANGED <<dht_cmd, command, processed_commands, written, errors, dispatched,
                   role_granted, denied_run, marked, rerun, contended, hstep>>
    /\ UNCHANGED nodeRest
    /\ UNCHANGED loopVars

\* `except Exception`: the error record is stored
ExceptStore ==
    /\ wpc = "except"
    /\ errors' = errors \cup {command}
    /\ wpc' = "finally"
    /\ UNCHANGED <<dht_cmd, command, processed_commands, written, dispatched,
                   role_granted, denied_run, marked, rerun, contended, hstep>>
    /\ UNCHANGED <<state, current_role, nodeRest>>
    /\ UNCHANGED loopVars

\* `except Exception`: store_data of the error record raises
ExceptStoreRaises ==
    /\ wpc = "except"
    /\ wpc' = "finally_raise"
    /\ UNCHANGED <<dht_cmd, command, processed_commands, written, errors, dispatched,
                   role_granted, denied_run, marked, rerun, contended, hstep>>
    /\ UNCHANGED <<state, current_role, nodeRest>>
    /\ UNCHANGED loopVars

\* `finally`, the return to _poll_and_execute and the bookkeeping there:
\* processed_commands.add(cmd_id) and the trim
WorkerFinally ==
    /\ wpc = "finally"
    /\ lock = "free"
    /\ WorkerFinallyRelease
    /\ processed_commands' \in Trim(processed_commands \cup {command})
    /\ marked' = marked \cup {command}
    /\ wpc' = "poll"
    /\ command' = NoCommand
    /\ role_granted' = "none"
    /\ UNCHANGED <<dht_cmd, written, errors, dispatched,
                   denied_run, rerun, contended, hstep>>
    /\ UNCHANGED nodeRest
    /\ UNCHANGED loopVars

\* `finally` with an exception in flight: it reaches _poll_and_execute's
\* `except`, and processed_commands is not touched
WorkerFinallyRaise ==
    /\ wpc = "finally_raise"
    /\ lock = "free"
    /\ WorkerFinallyRelease
    /\ wpc' = "poll"
    /\ command' = NoCommand
    /\ role_granted' = "none"
    /\ UNCHANGED <<dht_cmd, processed_commands, written, errors, dispatched,
                   denied_run, marked, rerun, contended, hstep>>
    /\ UNCHANGED nodeRest
    /\ UNCHANGED loopVars

\* WorkerExecutor.stop: self.running = False
WorkerStop ==
    /\ running
    /\ wpc # "returned"
    /\ running' = FALSE
    /\ UNCHANGED <<cancelled_cmd, raised, retried>>
    /\ UNCHANGED <<dht_cmd, wpc, command, processed_commands, written, errors, dispatched,
                   role_granted, denied_run, marked, rerun, contended, hstep>>
    /\ UNCHANGED <<state, current_role, nodeRest>>

\* start: `while self.running` is false after the iteration, the loop returns
WorkerLoopExit ==
    /\ wpc = "poll"
    /\ ~running
    /\ wpc' = "returned"
    /\ UNCHANGED loopVars
    /\ UNCHANGED <<dht_cmd, command, processed_commands, written, errors, dispatched,
                   role_granted, denied_run, marked, rerun, contended, hstep>>
    /\ UNCHANGED <<state, current_role, nodeRest>>

\* the awaits at which the loop's task is suspended: the sleep and the
\* retrieve_data of the poll, the DHT calls and waits of a handler, the
\* store_data of the error record
AtAwait == wpc \in {"poll", "handler", "except"}

\* the task of start() is cancelled: asyncio.CancelledError is raised at the
\* current await; `except Exception` in _execute_command and in
\* _poll_and_execute does not catch it, `finally` runs, and start's
\* `except asyncio.CancelledError: break` ends the loop
WorkerCancelled ==
    /\ AtAwait
    /\ lock = "free"
    /\ IF wpc = "poll"
          THEN UNCHANGED <<state, current_role>>
          ELSE WorkerFinallyRelease
    /\ cancelled_cmd' = IF wpc = "handler" THEN command ELSE cancelled_cmd
    /\ wpc' = "returned"
    /\ command' = NoCommand
    /\ role_granted' = "none"
    /\ hstep' = 0
    /\ UNCHANGED <<running, raised, retried>>
    /\ UNCHANGED <<dht_cmd, processed_commands, written, errors, dispatched,
                   denied_run, marked, rerun, contended>>
    /\ UNCHANGED nodeRest

NextWorker ==
    \/ \E s \in Sessions, r \in WorkerRoles : Dispatch(s, r)
    \/ Poll
    \/ WorkerRequestRole
    \/ HandlerCheck
    \/ HandlerWrite
    \/ HandlerRaises
    \/ HandlerRelease
    \/ ExceptStore
    \/ ExceptStoreRaises
    \/ WorkerFinally
    \/ WorkerFinallyRaise

SpecWorker == InitWorker /\ [][NextWorker]_vars

\* the worker loop with its stop and its cancellation
NextWorkerLoop ==
    \/ \E s \in Sessions, r \in WorkerRoles : Dispatch(s, r)
    \/ Poll
    \/ WorkerRequestRole
    \/ HandlerCheckRecorded
    \/ HandlerWrite
    \/ HandlerRaisesRecorded
    \/ HandlerRelease
    \/ ExceptStore
    \/ ExceptStoreRaises
    \/ WorkerFinally
    \/ WorkerFinallyRaise
    \/ WorkerStop
    \/ WorkerLoopExit
    \/ WorkerCancelled

SpecWorkerLoop == InitWorker /\ [][NextWorkerLoop]_vars

\* the result keys of a command's handler that are in the DHT
ResultsOf(cmd) ==
    {k \in written : k[1] = cmd.process_id
                     /\ \E i \in 1..Len(HandlerKeys(cmd.role)) : k[2] = HandlerKeys(cmd.role)[i]}

\* C2: the handler of a command runs only if the command's request_role was
\* granted, and a command written while the same role is leased to another
\* session is ignored: no result key is written for it.
C2_HandlerOnlyWhenGranted ==
    /\ denied_run = {}
    /\ \A cmd \in contended : ResultsOf(cmd) = {}

\* C3: whenever _execute_command has returned (the loop is back at its poll),
\* the node holds no role and is ACTIVE, on the normal and on the raising path.
C3_RoleReleasedOnEveryPath ==
    wpc = "poll" => (current_role = NoAssignment /\ state = "active")

\* back at the poll after one handler returned normally and one raised
C3_Witness ==
    /\ wpc = "poll"
    /\ errors # {}
    /\ \E cmd \in marked : ResultsOf(cmd) # {} /\ cmd \notin errors

\* C4: a command that has been recorded in processed_commands is never handed
\* to a handler again.
C4_NoSecondRun == rerun = {}

\* C19: when the worker loop is cancelled while a handler is running, the
\* handler has written all its output keys and the role is released by the
\* time the loop has returned.
C19_HandlerCompletesBeforeLoopReturns ==
    (wpc = "returned" /\ cancelled_cmd # NoCommand) =>
        /\ current_role = NoAssignment
        /\ \A i \in 1..Len(HandlerKeys(cancelled_cmd.role)) :
              <<cancelled_cmd.process_id, HandlerKeys(cancelled_cmd.role)[i]>> \in written

\* C20: whenever the loop is back at its poll, the error record of every
\* command whose handler raised is in the DHT, and no such command is ever
\* executed again.
C20_ErrorRecordedAndNotRetried ==
    \A cmd \in raised :
        /\ wpc = "poll" => cmd \in errors
        /\ cmd \notin retried

(***************************************************************************)
(* core/dht_node.py: store_data, retrieve_data and delete_data as a client *)
(* of one node calls them.                                                 *)
(***************************************************************************)
\* a started node that nobody has asked for a role
NodeReady ==
    /\ state = "active"
    /\ current_role = NoAssignment
    /\ capabilities = QuantumRoles
    /\ lock = "free"
    /\ now = 0
    /\ cpc = [c \in Contexts |-> "idle"]
    /\ carg = [c \in Contexts |-> NoArg]
    /\ cret = [c \in Contexts |-> "none"]

\* the keys and values the enumerated calls use
ApiKeys == {ProcessIdKey, <<1, "alice_to_bob">>}
ApiValues == {Str("abc"), Str("7"), PyInt(7), Dict("d"), Pid(1)}

InitDht == WorkerIdle /\ SessionIdle /\ NodeReady

\* store_data: server.set stores the value, or raises and nothing is stored
StoreData(k, value) ==
    /\ \E ok \in BOOLEAN :
          IF ok THEN /\ store' = [store EXCEPT ![k] = value_to_store(value)]
                     /\ deleted' = deleted \ {k}
                ELSE UNCHANGED <<store, deleted>>
    /\ got' = NoGet
    /\ UNCHANGED <<leaseVars, workerVars, restVars, bobVars, aliceVars>>

\* retrieve_data: the decoded value, or None when server.get raises
RetrieveData(k) ==
    /\ \E ok \in BOOLEAN :
          got' = [key |-> k, value |-> IF ok THEN retrieve_data(k) ELSE None]
    /\ UNCHANGED <<store, deleted>>
    /\ UNCHANGED <<leaseVars, workerVars, restVars, bobVars, aliceVars>>

\* delete_data: `await self.server.set(key, "__DELETED__")`
DeleteWrites(k) == [store EXCEPT ![k] = Deleted]

\* delete_data: the marker is written, or server.set raises and the error
\* is swallowed
DeleteData(k) ==
    /\ \E ok \in BOOLEAN :
          IF ok THEN /\ store' = DeleteWrites(k)
                     /\ deleted' = deleted \cup {k}
                ELSE UNCHANGED <<store, deleted>>
    /\ got' = NoGet
    /\ UNCHANGED <<leaseVars, workerVars, restVars, bobVars, aliceVars>>

NextDht ==
    \/ \E k \in ApiKeys, value \in ApiValues : StoreData(k, value)
    \/ \E k \in ApiKeys : RetrieveData(k)
    \/ \E k \in ApiKeys : DeleteData(k)

SpecDht == InitDht /\ [][NextDht]_vars

\* C5: once delete_data(key) has taken effect, retrieve_data(key) returns
\* None until the key is stored again, and retrieve_data never returns the
\* string "__DELETED__".
C5_DeletedKeyReadsAbsent ==
    got # NoGet =>
        /\ got.value # Deleted
        /\ got.key \in deleted => got.value = None

(***************************************************************************)
(* The session handshake: Alice's /generate-key endpoint publishes a       *)
(* process id on cqkd_process_id and step 11 writes {pid}:alice_to_bob;    *)
(* CQKD_GEN/scripts/bob_node.py waits for a new, validated process id.     *)
(***************************************************************************)
InitBob == WorkerIdle /\ SessionIdle /\ NodeReady

\* the sessions Bob has handed to receive_key
AcceptedSessions == {accepted[i].n : i \in 1..Len(accepted)}

\* the endpoint: a new Alice, its process id stored under cqkd_process_id.
\* Requests overlap: generate_key of an earlier one may still be running.
AlicePublish ==
    /\ next_sid < MaxSessions
    /\ next_sid' = next_sid + 1
    /\ store' = [store EXCEPT ![ProcessIdKey] = value_to_store(Pid(next_sid + 1))]
    /\ superseded' =
          LET old == store[ProcessIdKey] IN
          IF old.t = "str" /\ old.n > 0 /\ old.n \notin AcceptedSessions
              THEN superseded \cup {old.n} ELSE superseded
    /\ UNCHANGED <<got, deleted, bpc, bob_pid, attempts, last_seen, accepted>>
    /\ UNCHANGED <<leaseVars, workerVars, restVars, aliceVars>>

\* _notify_bob of session s: json.dumps(notification_data) stored under
\* {s}:alice_to_bob
AliceNotify(s) ==
    /\ s <= next_sid
    /\ store[<<s, "alice_to_bob">>] = None
    /\ store' = [store EXCEPT ![<<s, "alice_to_bob">>] =
                     value_to_store(json_dumps(Dict("notification")))]
    /\ UNCHANGED <<got, deleted, bobVars>>
    /\ UNCHANGED <<leaseVars, workerVars, restVars, aliceVars>>

\* a client deletes the well-known key
DeleteProcessId ==
    /\ store[ProcessIdKey] # Deleted
    /\ store[ProcessIdKey] # None
    /\ store' = DeleteWrites(ProcessIdKey)
    /\ UNCHANGED <<got, deleted, bobVars>>
    /\ UNCHANGED <<leaseVars, workerVars, restVars, aliceVars>>

\* wait_new_process_id: `if pid and pid != "__DELETED__" and pid != last_seen`
IsCandidate(p) == Truthy(p) /\ p # Deleted /\ p # last_seen

\* wait_new_process_id: `notif = await node.retrieve_data(notif_key)`,
\* `if notif:`
NotificationSeen(p) == Truthy(retrieve_data(NotifKey(p)))

\* wait_new_process_id: the read of cqkd_process_id and the filter
BobPoll ==
    /\ bpc = "poll"
    /\ bob_pid' = retrieve_data(ProcessIdKey)
    /\ IF IsCandidate(bob_pid')
          THEN bpc' = "validate"
          ELSE bpc' = "poll"
    /\ attempts' = 0
    /\ UNCHANGED <<next_sid, last_seen, accepted, superseded>>
    /\ UNCHANGED <<leaseVars, workerVars, restVars, dhtVars, aliceVars>>

\* a listener that takes a stale id for seen
StaleLastSeenIsPid == bob_pid

\* wait_new_process_id after the window: the id is logged as stale and the
\* loop goes on; last_seen is the caller's argument and stays what it was
StaleLastSeen == last_seen

\* one iteration of the validation window; on success the id is returned,
\* main sets last_seen_pid and calls receive_key; after the last iteration
\* the id is logged as stale and the outer loop goes on
BobValidateStep ==
    /\ bpc = "validate"
    /\ IF NotificationSeen(bob_pid)
          THEN /\ bpc' = "receive"
               /\ last_seen' = bob_pid
               /\ accepted' = Append(accepted, bob_pid)
               /\ attempts' = 0
          ELSE /\ IF attempts + 1 < ValidationAttempts
                     THEN bpc' = "validate" /\ attempts' = attempts + 1
                          /\ last_seen' = last_seen
                     ELSE bpc' = "poll" /\ attempts' = 0
                          /\ last_seen' = StaleLastSeen
               /\ UNCHANGED accepted
    /\ UNCHANGED <<next_sid, bob_pid, superseded>>

BobValidate ==
    /\ BobValidateStep
    /\ UNCHANGED <<leaseVars, workerVars, restVars, dhtVars, aliceVars>>

\* receive_key returns and Bob waits for the next process id
BobReceiveDone ==
    /\ bpc = "receive"
    /\ bpc' = "poll"
    /\ UNCHANGED <<next_sid, bob_pid, attempts, last_seen, accepted, superseded>>
    /\ UNCHANGED <<leaseVars, workerVars, restVars, dhtVars, aliceVars>>

NextBob ==
    \/ AlicePublish
    \/ \E s \in Sessions : AliceNotify(s)
    \/ DeleteProcessId
    \/ BobPoll
    \/ BobValidate
    \/ BobReceiveDone

SpecBob == InitBob /\ [][NextBob]_vars

(***************************************************************************)
(* scripts/bob_node.py: the first Bob script, which takes whatever is      *)
(* under cqkd_process_id.                                                  *)
(***************************************************************************)
\* `process_id = await bob_node.retrieve_data(PROCESS_ID_KEY)` until it is
\* not None, then receive_key(process_id)
LegacyPoll ==
    /\ bpc = "poll"
    /\ Len(accepted) < MaxAccepts
    /\ bob_pid' = retrieve_data(ProcessIdKey)
    /\ IF bob_pid' # None
          THEN bpc' = "receive" /\ accepted' = Append(accepted, bob_pid')
          ELSE bpc' = "poll" /\ UNCHANGED accepted
    /\ UNCHANGED <<next_sid, attempts, last_seen, superseded>>
    /\ UNCHANGED <<leaseVars, workerVars, restVars, dhtVars, aliceVars>>

\* receive_key returns; `process_id = None` and the wait starts again
LegacyReceiveDone ==
    /\ bpc = "receive"
    /\ bpc' = "poll"
    /\ bob_pid' = None
    /\ UNCHANGED <<next_sid, attempts, last_seen, accepted, superseded>>
    /\ UNCHANGED <<leaseVars, workerVars, restVars, dhtVars, aliceVars>>

NextBobLegacy ==
    \/ AlicePublish
    \/ \E s \in Sessions : AliceNotify(s)
    \/ LegacyPoll
    \/ LegacyReceiveDone

SpecBobLegacy == InitBob /\ [][NextBobLegacy]_vars

\* C6: every value Bob hands to receive_key is not None, is not
\* "__DELETED__", differs from the value accepted before it, and has its
\* {S}:alice_to_bob notification in the DHT.
C6_BobAcceptsOnlyValidated ==
    \A i \in 1..Len(accepted) :
        /\ accepted[i] # None
        /\ accepted[i] # Deleted
        /\ i > 1 => accepted[i] # accepted[i - 1]
        /\ Truthy(retrieve_data(NotifKey(accepted[i])))

\* C7: a session that was overwritten on cqkd_process_id before Bob had
\* accepted it is never accepted afterwards, and every accepted session has
\* its alice_to_bob notification visible.
C7_BobAcceptsOnlyLatest ==
    \A i \in 1..Len(accepted) :
        /\ accepted[i].n \notin superseded
        /\ Truthy(retrieve_data(NotifKey(accepted[i])))

(***************************************************************************)
(* protocol/alice.py: one /generate-key request after another, each        *)
(* running Alice.generate_key with the orchestrator of                     *)
(* protocol/key_generation.py.                                             *)
(***************************************************************************)
KeyLengths == 1..MaxLc

\* calculate_required_nodes: lk = ceil(2.5 * lc), total = 5 * lk
InitialKeyLength(l) == (5 * l + 1) \div 2
TotalNodes(l) == 5 * InitialKeyLength(l)

\* the sizes of the routing table the enumerated runs meet
NodeCounts(a) == {0, a - 1, a, a + 1}

\* a step 2-3 test that lets every list through
InsufficientNodesNever(n, total) == FALSE

\* generate_key: `if len(available_nodes) < alpha`
InsufficientNodes(n, total) == n < total

\* allocate_nodes: `if len(available_nodes) < requirements['total']`
AllocationRefused(n, total) == n < total

\* complete_process: the record the DHT holds afterwards when store_data
\* succeeds
CompletionRecord(success) == Dict(IF success THEN "completed" ELSE "failed")

\* complete_process for the session in Alice.process_id's orchestrator:
\* the record is stored, or store_data raises and the error is logged only
complete_process(success) ==
    \E ok \in BOOLEAN :
        store' = IF ok
                    THEN [store EXCEPT ![CompletionKey(orch_pid)] =
                              value_to_store(CompletionRecord(success))]
                    ELSE store

InitAlice == WorkerIdle /\ SessionIdle /\ NodeReady

aliceRest == <<leaseVars, workerVars, restVars, bobVars, got, deleted>>

\* the endpoint: `Alice(alice_node, ...)`, the process id published, and
\* generate_key(desired_length_bits) entered
GenerateKeyRequest(l) ==
    /\ apc = "idle"
    /\ orch_pid < MaxSessions
    /\ orch_pid' = orch_pid + 1
    /\ store' = [store EXCEPT ![ProcessIdKey] = value_to_store(Pid(orch_pid + 1))]
    /\ alice_pid' = 0
    /\ lc' = l
    /\ lk' = 0
    /\ alpha' = 0
    /\ available_nodes' = -2
    /\ valid_positions' = -1
    /\ final_key_bits' = -1
    /\ err' = NoError
    /\ allocated' = FALSE
    /\ commanded' = FALSE
    /\ apc' = "sizing"
    /\ UNCHANGED aliceRest

\* step 1
Sizing ==
    /\ apc = "sizing"
    /\ lk' = InitialKeyLength(lc)
    /\ alpha' = TotalNodes(lc)
    /\ apc' = "discover"
    /\ UNCHANGED <<orch_pid, alice_pid, lc, available_nodes, valid_positions,
                   final_key_bits, err, allocated, commanded, store>>
    /\ UNCHANGED aliceRest

\* discover_available_nodes: routing_info.get("all_nodes"), which is None
\* when get_routing_table_info returned its error dict
Discover ==
    /\ apc = "discover"
    /\ available_nodes' \in NodeCounts(alpha) \cup {-1}
    /\ apc' = "check"
    /\ UNCHANGED <<orch_pid, alice_pid, lc, lk, alpha, valid_positions,
                   final_key_bits, err, allocated, commanded, store>>
    /\ UNCHANGED aliceRest

\* step 2-3: len(None) raises TypeError; a short list raises ValueError
CheckNodes ==
    /\ apc = "check"
    /\ IF available_nodes = -1
          THEN /\ err' = [kind |-> "type_error", found |-> 0, required |-> 0]
               /\ apc' = "except"
          ELSE IF InsufficientNodes(available_nodes, alpha)
          THEN /\ err' = [kind |-> "not_enough_nodes", found |-> available_nodes,
                          required |-> alpha]
               /\ apc' = "except"
          ELSE /\ err' = err
               /\ apc' = "allocate"
    /\ UNCHANGED <<orch_pid, alice_pid, lc, lk, alpha, available_nodes,
                   valid_positions, final_key_bits, allocated, commanded, store>>
    /\ UNCHANGED aliceRest

\* steps 4-7: allocate_nodes, then `self.process_id = process_id`
Allocate ==
    /\ apc = "allocate"
    /\ IF AllocationRefused(available_nodes, alpha)
          THEN /\ err' = [kind |-> "not_enough_nodes", found |-> available_nodes,
                          required |-> alpha]
               /\ apc' = "except"
               /\ UNCHANGED <<allocated, alice_pid>>
          ELSE /\ allocated' = TRUE
               /\ alice_pid' = orch_pid
               /\ apc' = "dispatch"
               /\ err' = err
    /\ UNCHANGED <<orch_pid, lc, lk, alpha, available_nodes, valid_positions,
                   final_key_bits, commanded, store>>
    /\ UNCHANGED aliceRest

\* step 8: the commands are stored, or a store_data raises
DispatchCommands ==
    /\ apc = "dispatch"
    /\ commanded' = TRUE
    /\ \E ok \in BOOLEAN :
          IF ok THEN apc' = "collect" /\ err' = err
                ELSE /\ apc' = "except"
                     /\ err' = [kind |-> "store_error", found |-> 0, required |-> 0]
    /\ UNCHANGED <<orch_pid, alice_pid, lc, lk, alpha, available_nodes,
                   valid_positions, final_key_bits, allocated, store>>
    /\ UNCHANGED aliceRest

\* step 9: every qsg_result and bg_alice_result arrives, or _wait_for_result
\* raises TimeoutError
Collect ==
    /\ apc = "collect"
    /\ \E ok \in BOOLEAN :
          IF ok THEN apc' = "notify" /\ err' = err
                ELSE /\ apc' = "except"
                     /\ err' = [kind |-> "timeout", found |-> 0, required |-> 0]
    /\ UNCHANGED <<orch_pid, alice_pid, lc, lk, alpha, available_nodes,
                   valid_positions, final_key_bits, allocated, commanded, store>>
    /\ UNCHANGED aliceRest

\* steps 10-11: the shuffle, then _notify_bob stores {pid}:alice_to_bob or
\* its store_data raises
NotifyBob ==
    /\ apc = "notify"
    /\ \E ok \in BOOLEAN :
          IF ok THEN /\ store' = [store EXCEPT ![<<alice_pid, "alice_to_bob">>] =
                                      value_to_store(json_dumps(Dict("notification")))]
                     /\ apc' = "sift"
                     /\ err' = err
                ELSE /\ store' = store
                     /\ apc' = "except"
                     /\ err' = [kind |-> "store_error", found |-> 0, required |-> 0]
    /\ UNCHANGED <<orch_pid, alice_pid, lc, lk, alpha, available_nodes,
                   valid_positions, final_key_bits, allocated, commanded>>
    /\ UNCHANGED aliceRest

\* step 18: QuantumPhotonCollider.execute and _wait_for_qpc_sifting return
\* the valid positions, or the wait raises TimeoutError
Sift ==
    /\ apc = "sift"
    /\ \/ /\ valid_positions' \in 0..lk
          /\ apc' = "extract"
          /\ err' = err
       \/ /\ valid_positions' = valid_positions
          /\ apc' = "except"
          /\ err' = [kind |-> "timeout", found |-> 0, required |-> 0]
    /\ UNCHANGED <<orch_pid, alice_pid, lc, lk, alpha, available_nodes,
                   final_key_bits, allocated, commanded, store>>
    /\ UNCHANGED aliceRest

\* step 19: `if len(sifted_bits) < lc:` logs a warning and keeps the short
\* list, `else: final_key_bits = sifted_bits[:lc]`
FinalKeyLength(sifted, l) == IF sifted < l THEN sifted ELSE l

\* step 19: the key is built from the sifted bits
Extract ==
    /\ apc = "extract"
    /\ final_key_bits' = FinalKeyLength(valid_positions, lc)
    /\ apc' = "complete"
    /\ UNCHANGED <<orch_pid, alice_pid, lc, lk, alpha, available_nodes,
                   valid_positions, err, allocated, commanded, store>>
    /\ UNCHANGED aliceRest

\* `await self.orchestrator.complete_process(success=True)`, `return key_bytes`
Complete ==
    /\ apc = "complete"
    /\ complete_process(TRUE)
    /\ apc' = "returned"
    /\ UNCHANGED <<orch_pid, alice_pid, lc, lk, alpha, available_nodes,
                   valid_positions, final_key_bits, err, allocated, commanded>>
    /\ UNCHANGED aliceRest

\* `except Exception`: `if self.process_id:` complete_process(success=False),
\* then `raise`
Except ==
    /\ apc = "except"
    /\ IF alice_pid # 0
          THEN complete_process(FALSE)
          ELSE store' = store
    /\ apc' = "raised"
    /\ UNCHANGED <<orch_pid, alice_pid, lc, lk, alpha, available_nodes,
                   valid_positions, final_key_bits, err, allocated, commanded>>
    /\ UNCHANGED aliceRest

\* the request is over (`finally: orchestrator.stop()`); the service takes
\* the next one
EndRequest ==
    /\ apc \in {"returned", "raised"}
    /\ apc' = "idle"
    /\ UNCHANGED <<orch_pid, alice_pid, lc, lk, alpha, available_nodes,
                   valid_positions, final_key_bits, err, allocated, commanded, store>>
    /\ UNCHANGED aliceRest

NextAlice ==
    \/ \E l \in KeyLengths : GenerateKeyRequest(l)
    \/ Sizing
    \/ Discover
    \/ CheckNodes
    \/ Allocate
    \/ DispatchCommands
    \/ Collect
    \/ NotifyBob
    \/ Sift
    \/ Extract
    \/ Complete
    \/ Except
    \/ EndRequest

SpecAlice == InitAlice /\ [][NextAlice]_vars

\* C8: when generate_key has returned or raised, {sid}:completion holds a
\* record, with status completed after a return and failed after a raise.
C8_CompletionAlwaysWritten ==
    /\ apc = "returned" => retrieve_data(CompletionKey(orch_pid)) = CompletionRecord(TRUE)
    /\ apc = "raised" => retrieve_data(CompletionKey(orch_pid)) = CompletionRecord(FALSE)

\* C9: a key is returned only when at least lc bits survived sifting, and
\* it then has exactly lc bits; with fewer than lc sifted bits generate_key
\* raises and returns no key.
C9_NoPartialKey ==
    /\ apc = "returned" => (valid_positions >= lc /\ final_key_bits = lc)
    /\ (apc \in {"returned", "raised"} /\ valid_positions # -1 /\ valid_positions < lc)
          => (apc = "raised" /\ err.kind = "insufficient_bits")

Photons == 0..(qpc_lk - 1)

\* the orders secrets.SystemRandom().shuffle can leave a list of n indices in
Shuffles(n) == {p \in [1..n -> 0..(n - 1)] : \A i, j \in 1..n : i # j => p[i] # p[j]}

\* a list read from the keys ...:{i}, i in range(lk): element i is photon i's
CollectedInOrder == [i \in 1..qpc_lk |-> i - 1]

\* [bits[i] for i in valid_positions if i < len(bits)]
RECURSIVE Sifted(_, _)
Sifted(bits, positions) ==
    IF positions = <<>> THEN <<>>
    ELSE IF Head(positions) < Len(bits)
            THEN <<bits[Head(positions) + 1]>> \o Sifted(bits, Tail(positions))
            ELSE Sifted(bits, Tail(positions))

\* QPC.execute: a placeholder that counts as a match
TimeoutEntryMatches(i) == [operation_id |-> i, bases_match |-> TRUE]

\* QPC.execute: the placeholder appended when the 240 attempts found nothing
TimeoutEntry(i) == [operation_id |-> i, bases_match |-> FALSE]

\* QPC.sift_keys: measurement.get('operation_id', idx) of every measurement
\* whose bases_match is true, in list order
RECURSIVE sift_keys(_)
sift_keys(ms) ==
    IF ms = <<>> THEN <<>>
    ELSE IF Head(ms).bases_match
            THEN <<Head(ms).operation_id>> \o sift_keys(Tail(ms))
            ELSE sift_keys(Tail(ms))

siftRest == <<leaseVars, workerVars, dhtVars, bobVars, aliceVars, cacheVars, healthVars, allocVars, scoreVars, discVars, batchVars, bootVars, adaptVars, bitsVars, waitVars, taskVars, ownerVars, staleVars, retryVars>>

\* Alice after STEP 8: the commands are dispatched, nothing is written yet
InitSift ==
    /\ WorkerIdle
    /\ DhtIdle /\ BobIdle /\ AliceIdle /\ CacheIdle /\ HealthIdle
    /\ NodeReady
    /\ RetryIdle
    /\ StaleIdle
    /\ OwnerIdle
    /\ TaskIdle
    /\ WaitIdle
    /\ BitsIdle
    /\ AdaptIdle
    /\ BootIdle
    /\ BatchIdle
    /\ DiscIdle
    /\ ScoreIdle
    /\ AllocIdle
    /\ qpc_lk \in 1..MaxLk
    /\ sorting_rule = <<>>
    /\ alice_bits = <<>>
    /\ bob_bits = <<>>
    /\ qpm_to_qpc = [i \in Photons |-> Missing]
    /\ measurements = <<>>
    /\ late = {}
    /\ sifting_result = NoResult
    /\ alice_sifted = NoBits
    /\ bob_sifted = NoBits
    /\ results = {}
    /\ collected = 0
    /\ notified = FALSE

\* a QSG or BG worker stores its result for operation i
WorkerStoreResult(kind, i) ==
    /\ <<kind, i>> \notin results
    /\ results' = results \cup {<<kind, i>>}
    /\ UNCHANGED <<qpc_lk, sorting_rule, alice_bits, bob_bits, qpm_to_qpc, measurements,
                   late, sifting_result, alice_sifted, bob_sifted, collected, notified>>
    /\ UNCHANGED siftRest

\* _wait_for_result finds a value under every key it is asked for
ResultsAssumed(i) == TRUE

\* _wait_for_result for qsg_result:{i} and for bg_alice_result:{i}: each
\* returns once retrieve_data finds a value under the key
ResultsAppeared(i) == {<<"qsg_result", i>>, <<"bg_alice_result", i>>} \subseteq results

\* _collect_quantum_results, one i of its loop: both results are read and
\* appended, or a wait runs out and TimeoutError leaves generate_key
AliceCollect ==
    /\ collected \in Photons
    /\ IF ResultsAppeared(collected)
          THEN /\ alice_bits' = Append(alice_bits, collected)
               /\ collected' = collected + 1
          ELSE /\ alice_bits' = alice_bits
               /\ collected' = -1
    /\ UNCHANGED <<qpc_lk, sorting_rule, bob_bits, qpm_to_qpc, measurements,
                   late, sifting_result, alice_sifted, bob_sifted, results, notified>>
    /\ UNCHANGED siftRest

\* generate_key STEP 10: the shuffle, applied to Alice's own lists
Shuffle(p) ==
    /\ collected = qpc_lk
    /\ sorting_rule = <<>>
    /\ sorting_rule' = p
    /\ alice_bits' = [j \in 1..qpc_lk |-> alice_bits[p[j] + 1]]
    /\ UNCHANGED <<qpc_lk, bob_bits, qpm_to_qpc, measurements, late, sifting_result,
                   alice_sifted, bob_sifted>>
    /\ UNCHANGED <<collectVars, siftRest>>

\* generate_key STEP 11: _notify_bob stores {process_id}:alice_to_bob
AliceNotifyBob ==
    /\ sorting_rule # <<>>
    /\ ~notified
    /\ notified' = TRUE
    /\ UNCHANGED <<qpc_lk, sorting_rule, alice_bits, bob_bits, qpm_to_qpc, measurements,
                   late, sifting_result, alice_sifted, bob_sifted, results, collected>>
    /\ UNCHANGED siftRest

\* QuantumPhotonMeter.execute for operation i, after its wait for
\* bg_bob_result:{i}, which Bob has written only once notified: qpm_result:{i}
\* and qpm_to_qpc:{i} are stored, with bases_match as measured
QpmStore(i, match) ==
    /\ notified
    /\ qpm_to_qpc[i] = Missing
    /\ qpm_to_qpc' = [qpm_to_qpc EXCEPT ![i] = [operation_id |-> i, bases_match |-> match]]
    /\ late' = IF i < Len(measurements) THEN late \cup {i} ELSE late
    /\ UNCHANGED <<qpc_lk, sorting_rule, alice_bits, bob_bits, measurements,
                   sifting_result, alice_sifted, bob_sifted>>
    /\ UNCHANGED <<collectVars, siftRest>>

\* QPC.execute, one operation_id of its loop: the entry is read, or the
\* attempts run out and the placeholder is appended
QpcCollect ==
    LET i == Len(measurements) IN
    /\ notified
    /\ i < qpc_lk
    /\ measurements' = Append(measurements,
                              IF qpm_to_qpc[i] # Missing THEN qpm_to_qpc[i]
                                                         ELSE TimeoutEntry(i))
    /\ UNCHANGED <<qpc_lk, sorting_rule, alice_bits, bob_bits, qpm_to_qpc, late,
                   sifting_result, alice_sifted, bob_sifted>>
    /\ UNCHANGED <<collectVars, siftRest>>

\* QPC.execute STEP 18.2 and 18.3: the sifting and the stored result
QpcSift ==
    /\ Len(measurements) = qpc_lk
    /\ sifting_result = NoResult
    /\ sifting_result' = sift_keys(measurements)
    /\ UNCHANGED <<qpc_lk, sorting_rule, alice_bits, bob_bits, qpm_to_qpc, measurements,
                   late, alice_sifted, bob_sifted>>
    /\ UNCHANGED <<collectVars, siftRest>>

\* generate_key STEP 19
AliceExtract ==
    /\ sifting_result # NoResult
    /\ alice_sifted = NoBits
    /\ alice_sifted' = Sifted(alice_bits, sifting_result)
    /\ UNCHANGED <<qpc_lk, sorting_rule, alice_bits, bob_bits, qpm_to_qpc, measurements,
                   late, sifting_result, bob_sifted>>
    /\ UNCHANGED <<collectVars, siftRest>>

\* receive_key STEP 16-17: _collect_measurements, every qpm_result:{i} found
BobCollect ==
    /\ notified
    /\ bob_bits = <<>>
    /\ \A i \in Photons : qpm_to_qpc[i] # Missing
    /\ bob_bits' = CollectedInOrder
    /\ UNCHANGED <<qpc_lk, sorting_rule, alice_bits, qpm_to_qpc, measurements, late,
                   sifting_result, alice_sifted, bob_sifted>>
    /\ UNCHANGED <<collectVars, siftRest>>

\* receive_key STEP 19
BobExtract ==
    /\ bob_bits # <<>>
    /\ sifting_result # NoResult
    /\ bob_sifted = NoBits
    /\ bob_sifted' = Sifted(bob_bits, sifting_result)
    /\ UNCHANGED <<qpc_lk, sorting_rule, alice_bits, bob_bits, qpm_to_qpc, measurements,
                   late, sifting_result, alice_sifted>>
    /\ UNCHANGED <<collectVars, siftRest>>

NextSift ==
    \/ \E kind \in {"qsg_result", "bg_alice_result"}, i \in Photons : WorkerStoreResult(kind, i)
    \/ AliceCollect
    \/ \E p \in Shuffles(qpc_lk) : Shuffle(p)
    \/ AliceNotifyBob
    \/ \E i \in Photons, match \in BOOLEAN : QpmStore(i, match)
    \/ QpcCollect
    \/ QpcSift
    \/ AliceExtract
    \/ BobCollect
    \/ BobExtract

SpecSift == InitSift /\ [][NextSift]_vars

\* C21: Alice has shuffled or written alice_to_bob only when all lk
\* qsg_result and bg_alice_result values were present and read, and she has
\* extracted her bits only when the sifting result had been stored and read.
C21_StepsWaitForWrites ==
    /\ (sorting_rule # <<>> \/ notified) =>
          /\ collected = qpc_lk
          /\ \A i \in Photons : {<<"qsg_result", i>>, <<"bg_alice_result", i>>} \subseteq results
    /\ alice_sifted # NoBits => sifting_result # NoResult

\* Alice has notified Bob and has extracted her sifted bits
C21_Witness == notified /\ alice_sifted # NoBits

\* C11: once Alice and Bob have both extracted their sifted bits, the k-th bit
\* Alice keeps and the k-th bit Bob keeps come from the same photon, for every
\* kept position.
C11_KeptBitsFromSamePhoton ==
    (alice_sifted # NoBits /\ bob_sifted # NoBits) =>
        /\ Len(alice_sifted) = Len(bob_sifted)
        /\ \A k \in 1..Len(alice_sifted) : alice_sifted[k] = bob_sifted[k]

\* C12: the stored valid_positions are exactly the indices whose qpm_to_qpc
\* entry QPC found with bases_match true, in ascending order; an entry missing
\* at QPC's timeout is left out and moves no other index.
C12_ValidPositionsExact ==
    sifting_result # NoResult =>
        /\ {sifting_result[k] : k \in 1..Len(sifting_result)} =
              {i \in Photons : qpm_to_qpc[i] # Missing /\ i \notin late
                               /\ qpm_to_qpc[i].bases_match}
        /\ \A k \in 1..(Len(sifting_result) - 1) : sifting_result[k] < sifting_result[k + 1]

\* sifted with an entry missing at the timeout before an index that matched
C12_Witness ==
    /\ sifting_result # NoResult
    /\ \E i, j \in Photons :
          /\ i < j
          /\ qpm_to_qpc[i] = Missing
          /\ \E k \in 1..Len(sifting_result) : sifting_result[k] = j

(***************************************************************************)
(* NodeCache: the primary map and its two indexes.                         *)
(***************************************************************************)

CacheIds == 1..MaxCacheIds

\* NodeCache.max_size, one less than the ids on offer
max_size == MaxCacheIds - 1

CacheRoles == {"qsg", "bg"}
CacheStates == {"active", "busy"}
CacheCapabilitySets == {{"qsg"}, {"qsg", "bg"}}
NodeInfos == [node_id : CacheIds, capabilities : CacheCapabilitySets, state : CacheStates]

NotCached == [capabilities |-> {}, state |-> "none", cached_at |-> -1]
Cached(c) == {n \in DOMAIN c : c[n] # NotCached}

\* the cache as one value: _cache, _by_capability, _by_state
TheCache == [cache |-> cache, by_capability |-> by_capability, by_state |-> by_state]

EmptyCache ==
    [cache |-> [n \in CacheIds |-> NotCached],
     by_capability |-> [r \in CacheRoles |-> {}],
     by_state |-> [st \in CacheStates |-> {}]]

\* CachedNode.is_expired
CachedExpired(entry) == now - entry.cached_at > CacheTTL

\* NodeCache._remove: pop the entry, discard the id from the indexes of the
\* popped entry's capabilities and state
Removed(k, node_id) ==
    IF k.cache[node_id] = NotCached THEN k
    ELSE [cache |-> [k.cache EXCEPT ![node_id] = NotCached],
          by_capability |-> [r \in CacheRoles |->
                IF r \in k.cache[node_id].capabilities
                   THEN k.by_capability[r] \ {node_id} ELSE k.by_capability[r]],
          by_state |-> [st \in CacheStates |->
                IF st = k.cache[node_id].state
                   THEN k.by_state[st] \ {node_id} ELSE k.by_state[st]]]

\* NodeCache._evict_lru: one cached node is removed, the one with the lowest
\* availability_score * (hit_count + 1), which depends on the hits and misses
\* counted so far
Evicted(k) == {Removed(k, n) : n \in Cached(k.cache)}

\* NodeCache.add after the eviction: the entry is assigned, the id added to
\* the indexes of the new capabilities and state
Added(k, node_info) ==
    [cache |-> [k.cache EXCEPT ![node_info.node_id] =
                    [capabilities |-> node_info.capabilities,
                     state |-> node_info.state, cached_at |-> now]],
     by_capability |-> [r \in CacheRoles |->
           IF r \in node_info.capabilities
              THEN k.by_capability[r] \cup {node_info.node_id} ELSE k.by_capability[r]],
     by_state |-> [st \in CacheStates |->
           IF st = node_info.state
              THEN k.by_state[st] \cup {node_info.node_id} ELSE k.by_state[st]]]

RECURSIVE RemovedAll(_, _)
RemovedAll(k, ids) ==
    IF ids = {} THEN k
    ELSE LET n == CHOOSE x \in ids : TRUE IN RemovedAll(Removed(k, n), ids \ {n})

SetCache(k) ==
    /\ cache' = k.cache
    /\ by_capability' = k.by_capability
    /\ by_state' = k.by_state

cacheRest == <<state, current_role, capabilities, lock, cpc, carg, cret,
               workerVars, dhtVars, bobVars, aliceVars, siftVars, healthVars, allocVars, scoreVars, discVars, batchVars, bootVars, adaptVars, bitsVars, waitVars, taskVars, ownerVars, staleVars, retryVars>>

InitCache ==
    /\ WorkerIdle
    /\ DhtIdle /\ BobIdle /\ AliceIdle /\ SiftIdle /\ HealthIdle
    /\ NodeReady
    /\ RetryIdle
    /\ StaleIdle
    /\ OwnerIdle
    /\ TaskIdle
    /\ WaitIdle
    /\ BitsIdle
    /\ AdaptIdle
    /\ BootIdle
    /\ BatchIdle
    /\ DiscIdle
    /\ ScoreIdle
    /\ AllocIdle
    /\ cache = EmptyCache.cache
    /\ by_capability = EmptyCache.by_capability
    /\ by_state = EmptyCache.by_state

\* NodeCache.add
CacheAdd(node_info) ==
    /\ \E k \in (IF Cardinality(Cached(cache)) >= max_size THEN Evicted(TheCache)
                                                              ELSE {TheCache}) :
          SetCache(Added(k, node_info))
    /\ UNCHANGED <<now, cacheRest>>

\* NodeCache.get of an expired entry, and the direct calls of _remove
CacheRemove(node_id) ==
    /\ cache[node_id] # NotCached
    /\ SetCache(Removed(TheCache, node_id))
    /\ UNCHANGED <<now, cacheRest>>

\* NodeCache.cleanup_expired
CleanupExpired ==
    /\ \E n \in Cached(cache) : CachedExpired(cache[n])
    /\ SetCache(RemovedAll(TheCache, {n \in Cached(cache) : CachedExpired(cache[n])}))
    /\ UNCHANGED <<now, cacheRest>>

NextCache ==
    \/ \E node_info \in NodeInfos : CacheAdd(node_info)
    \/ \E node_id \in CacheIds : CacheRemove(node_id)
    \/ CleanupExpired
    \/ Tick

SpecCache == InitCache /\ [][NextCache]_vars

\* C13: after any sequence of add, remove and cleanup_expired, each capability
\* index and each state index holds exactly the ids whose entry in the primary
\* map has that capability or that state.
C13_IndexesConsistent ==
    /\ \A r \in DOMAIN by_capability :
          by_capability[r] = {n \in Cached(cache) : r \in cache[n].capabilities}
    /\ \A st \in DOMAIN by_state :
          by_state[st] = {n \in Cached(cache) : cache[n].state = st}

(***************************************************************************)
(* HealthCheckManager: failed checks and the removal of unhealthy nodes.   *)
(***************************************************************************)

\* settings.health_check_failure_threshold
health_check_failure_threshold == 3

\* settings.health_check_min_availability_score, in tenths
health_check_min_availability_score == 3

\* the nodes under health check: cached and in the routing table at the start
HealthNodes == 1..max_size

NoStatus == [consecutive_failures |-> -1, total_checks |-> 0, successful_checks |-> 0]

\* NodeHealthStatus(node_id=...)
NewStatus == [consecutive_failures |-> 0, total_checks |-> 0, successful_checks |-> 0]

\* NodeHealthStatus.update_success
update_success(st) ==
    [consecutive_failures |-> 0,
     total_checks |-> st.total_checks + 1,
     successful_checks |-> st.successful_checks + 1]

\* NodeHealthStatus.update_failure
update_failure(st) ==
    [st EXCEPT !.consecutive_failures = @ + 1, !.total_checks = @ + 1]

\* NodeHealthStatus.needs_removal, availability_score being
\* successful_checks / total_checks
needs_removal(st) ==
    \/ st.consecutive_failures >= health_check_failure_threshold
    \/ 10 * st.successful_checks < health_check_min_availability_score * st.total_checks

\* whether the name binascii is bound where _remove_unhealthy_nodes uses it:
\* the module imports it only inside four other functions
BinasciiBound == FALSE

healthRest == <<leaseVars, workerVars, dhtVars, bobVars, aliceVars, siftVars, allocVars, scoreVars, discVars, batchVars, bootVars, adaptVars, bitsVars, waitVars, taskVars, ownerVars, staleVars, retryVars>>

InitHealth ==
    /\ WorkerIdle
    /\ DhtIdle /\ BobIdle /\ AliceIdle /\ SiftIdle
    /\ NodeReady
    /\ RetryIdle
    /\ StaleIdle
    /\ OwnerIdle
    /\ TaskIdle
    /\ WaitIdle
    /\ BitsIdle
    /\ AdaptIdle
    /\ BootIdle
    /\ BatchIdle
    /\ DiscIdle
    /\ ScoreIdle
    /\ AllocIdle
    /\ \E infos \in [HealthNodes -> [capabilities : CacheCapabilitySets, state : CacheStates]] :
          /\ cache = [n \in CacheIds |->
                        IF n \in HealthNodes
                           THEN [capabilities |-> infos[n].capabilities,
                                 state |-> infos[n].state, cached_at |-> 0]
                           ELSE NotCached]
          /\ by_capability = [r \in CacheRoles |->
                                {n \in HealthNodes : r \in infos[n].capabilities}]
          /\ by_state = [st \in CacheStates |-> {n \in HealthNodes : infos[n].state = st}]
    /\ health_status = [n \in HealthNodes |-> NoStatus]
    /\ routing_table = HealthNodes
    /\ unhealthy = {}

\* _process_health_check_results for the result of one node, with
\* _remove_unhealthy_nodes when the failure makes needs_removal true: the
\* cache entry is removed first; remove_contact's argument is evaluated next,
\* and when that raises, `except Exception` skips the routing table and the
\* pop of the health status
ProcessHealthCheckResult(n, success) ==
    LET old == IF health_status[n] = NoStatus THEN NewStatus ELSE health_status[n]
        new == IF success THEN update_success(old) ELSE update_failure(old)
        remove == ~success /\ needs_removal(new)
    IN
    /\ n \in routing_table
    /\ old.total_checks < MaxChecks
    /\ SetCache(IF remove THEN Removed(TheCache, n) ELSE TheCache)
    /\ routing_table' = IF remove /\ BinasciiBound THEN routing_table \ {n}
                                                   ELSE routing_table
    /\ health_status' = [health_status EXCEPT
                            ![n] = IF remove /\ BinasciiBound THEN NoStatus ELSE new]
    /\ unhealthy' = IF remove THEN unhealthy \cup {n} ELSE unhealthy
    /\ UNCHANGED healthRest

NextHealth ==
    \E n \in HealthNodes, success \in BOOLEAN : ProcessHealthCheckResult(n, success)

SpecHealth == InitHealth /\ [][NextHealth]_vars

\* C14: a node whose failed check made needs_removal true (F consecutive
\* failures, or a score below S_min) is afterwards in neither the cache, the
\* routing table, nor the health-status map.
C14_UnhealthyNodeRemovedEverywhere ==
    \A n \in unhealthy :
        /\ cache[n] = NotCached
        /\ n \notin routing_table
        /\ health_status[n] = NoStatus

(***************************************************************************)
(* KeyGenerationOrchestrator.allocate_nodes.                               *)
(***************************************************************************)

\* calculate_required_nodes: the role keys of requirements, in dict order
RoleOrder == <<"qsg", "bg", "qpp", "qpm", "qpc">>

\* the contacts of a routing table of n nodes, in any bucket order that is a
\* rotation: a list of n distinct nodes
NodeLists(n) ==
    IF n = 0 THEN {<<>>}
    ELSE {[i \in 1..n |-> ((i + r) % n) + 1] : r \in 0..(n - 1)}

\* available_nodes[idx:idx + count]
Slice(list, idx, count) ==
    LET last == IF idx + count <= Len(list) THEN idx + count ELSE Len(list)
    IN  [i \in 1..(IF last > idx THEN last - idx ELSE 0) |-> list[idx + i]]

\* an index that advances one short of the slice
NextIdxShort(idx, count) == idx + count - 1

\* `idx += count`
NextIdx(idx, count) == idx + count

allocRest == <<leaseVars, workerVars, dhtVars, bobVars, aliceVars, siftVars, cacheVars,
               healthVars, scoreVars, discVars, batchVars, bootVars, adaptVars, bitsVars, waitVars, taskVars, ownerVars, staleVars, retryVars>>

InitAllocate ==
    /\ WorkerIdle
    /\ DhtIdle /\ BobIdle /\ AliceIdle /\ SiftIdle /\ CacheIdle /\ HealthIdle
    /\ NodeReady
    /\ RetryIdle
    /\ StaleIdle
    /\ OwnerIdle
    /\ TaskIdle
    /\ WaitIdle
    /\ BitsIdle
    /\ AdaptIdle
    /\ BootIdle
    /\ BatchIdle
    /\ DiscIdle
    /\ ScoreIdle
    /\ alloc_lk \in {InitialKeyLength(l) : l \in KeyLengths}
    /\ \E n \in NodeCounts(5 * alloc_lk) : node_list \in NodeLists(n)
    /\ alloc_idx = 0
    /\ allocation = <<>>
    /\ alloc_pc = "call"

\* allocate_nodes: the length test, then `allocation = {}` and `idx = 0`
AllocateEnter ==
    /\ alloc_pc = "call"
    /\ alloc_pc' = IF AllocationRefused(Len(node_list), 5 * alloc_lk) THEN "raised" ELSE "loop"
    /\ UNCHANGED <<node_list, alloc_lk, alloc_idx, allocation>>
    /\ UNCHANGED allocRest

\* allocate_nodes, one role of `for role_name, count in requirements.items()`
AllocateSlice ==
    LET k == Len(allocation) + 1 IN
    /\ alloc_pc = "loop"
    /\ k <= Len(RoleOrder)
    /\ allocation' = Append(allocation, Slice(node_list, alloc_idx, alloc_lk))
    /\ alloc_idx' = NextIdx(alloc_idx, alloc_lk)
    /\ alloc_pc' = IF k = Len(RoleOrder) THEN "returned" ELSE "loop"
    /\ UNCHANGED <<node_list, alloc_lk>>
    /\ UNCHANGED allocRest

NextAllocate ==
    \/ AllocateEnter
    \/ AllocateSlice

SpecAllocate == InitAllocate /\ [][NextAllocate]_vars

\* C22: allocate_nodes raises exactly when fewer than 5 * lk nodes are
\* available; otherwise the k-th role of QSG, BG, QPP, QPM, QPC gets the k-th
\* contiguous slice of lk nodes of the list, and no node is in two slices.
C22_FiveDisjointSlices ==
    /\ alloc_pc = "raised" => Len(node_list) < 5 * alloc_lk
    /\ alloc_pc \in {"loop", "returned"} => Len(node_list) >= 5 * alloc_lk
    /\ alloc_pc = "returned" =>
          /\ Len(allocation) = 5
          /\ \A k \in 1..5 :
                /\ Len(allocation[k]) = alloc_lk
                /\ \A i \in 1..alloc_lk : allocation[k][i] = node_list[(k - 1) * alloc_lk + i]
          /\ \A k, m \in 1..5 : \A i, j \in 1..alloc_lk :
                allocation[k][i] = allocation[m][j] => (k = m /\ i = j)

\* allocated from a list with one node more than needed
C22_Witness == alloc_pc = "returned" /\ Len(node_list) = 5 * alloc_lk + 1

(***************************************************************************)
(* NodeCache usage counters, eviction, and the cache step of               *)
(* SmartDiscoveryStrategy.discover_nodes.                                  *)
(***************************************************************************)

ScoreIds == 1..MaxScoreIds
ScoreInfos == {ni \in NodeInfos : ni.node_id \in ScoreIds}

\* the same nodes where capabilities and state play no part
PlainInfos == {ni \in ScoreInfos : ni.capabilities = {"qsg"} /\ ni.state = "active"}

\* CachedNode.availability_score of a new entry, 1.0, as <<numerator, denominator>>
ScoreOne == <<1, 1>>

\* an availability score against a threshold given in tenths
ScoreAtLeast(sc, tenths) == 10 * sc[1] >= tenths * sc[2]

\* CachedNode.update_availability_score: the score is only reassigned when
\* hit_count + miss_count > 0
update_availability_score(h, m, old) == IF h + m > 0 THEN <<h, h + m>> ELSE old

\* the counters of the cache as one value, beside TheCache
TheScores ==
    [hit_count |-> hit_count, miss_count |-> miss_count,
     availability_score |-> availability_score, cache_order |-> cache_order]

TheScored == [k |-> TheCache, sc |-> TheScores]

\* dict.pop: the entry and its counters are gone
Forgotten(sc, node_id) ==
    [hit_count |-> [sc.hit_count EXCEPT ![node_id] = 0],
     miss_count |-> [sc.miss_count EXCEPT ![node_id] = 0],
     availability_score |-> [sc.availability_score EXCEPT ![node_id] = ScoreOne],
     cache_order |-> SelectSeq(sc.cache_order, LAMBDA x : x # node_id)]

\* self._cache[node_id] = CachedNode(...): fresh counters; an existing key
\* keeps its place in the dict
Fresh(sc, node_id) ==
    [hit_count |-> [sc.hit_count EXCEPT ![node_id] = 0],
     miss_count |-> [sc.miss_count EXCEPT ![node_id] = 0],
     availability_score |-> [sc.availability_score EXCEPT ![node_id] = ScoreOne],
     cache_order |-> IF \E i \in 1..Len(sc.cache_order) : sc.cache_order[i] = node_id
                        THEN sc.cache_order ELSE Append(sc.cache_order, node_id)]

\* _evict_lru: score = availability_score * (hit_count + 1); a is below b
EvictionScoreLess(sc, a, b) ==
    sc.availability_score[a][1] * (sc.hit_count[a] + 1) * sc.availability_score[b][2]
        < sc.availability_score[b][1] * (sc.hit_count[b] + 1) * sc.availability_score[a][2]

\* the oldest key of the dict
lru_oldest(sc) == sc.cache_order[1]

\* _evict_lru: the loop over _cache.items() keeps the first key whose score is
\* strictly below every score seen before it
lru_node_id(sc) ==
    LET order == sc.cache_order
        i == CHOOSE i \in 1..Len(order) :
                /\ \A j \in 1..Len(order) : ~EvictionScoreLess(sc, order[j], order[i])
                /\ \A j \in 1..(i - 1) : EvictionScoreLess(sc, order[i], order[j])
    IN order[i]

NoEviction == [node_id |-> 0, above |-> {}]

\* NodeCache.add on a cache value: the eviction when full, then the entry
Admitted(w, node_info) ==
    LET full == Len(w.sc.cache_order) >= cache_max_size IN
    IF full /\ w.sc.cache_order = <<>>
       THEN [k |-> w.k, sc |-> w.sc, returned |-> "false", evicted |-> NoEviction]
       ELSE LET victim == IF full THEN lru_node_id(w.sc) ELSE 0
                k == IF full THEN Removed(w.k, victim) ELSE w.k
                sc == IF full THEN Forgotten(w.sc, victim) ELSE w.sc
            IN [k |-> Added(k, node_info), sc |-> Fresh(sc, node_info.node_id),
                returned |-> "true",
                evicted |-> IF full THEN [node_id |-> victim,
                                          above |-> {m \in Cached(w.k.cache) :
                                                       EvictionScoreLess(w.sc, victim, m)}]
                                    ELSE NoEviction]

SetScores(sc) ==
    /\ hit_count' = sc.hit_count
    /\ miss_count' = sc.miss_count
    /\ availability_score' = sc.availability_score
    /\ cache_order' = sc.cache_order

scoreRest == <<state, current_role, capabilities, lock, cpc, carg, cret,
               workerVars, dhtVars, bobVars, aliceVars, siftVars, healthVars, allocVars, discVars, batchVars, bootVars, adaptVars, bitsVars, waitVars, taskVars, ownerVars, staleVars, retryVars>>

InitScore ==
    /\ WorkerIdle
    /\ DhtIdle /\ BobIdle /\ AliceIdle /\ SiftIdle /\ HealthIdle /\ AllocIdle
    /\ NodeReady
    /\ RetryIdle
    /\ StaleIdle
    /\ OwnerIdle
    /\ TaskIdle
    /\ WaitIdle
    /\ BitsIdle
    /\ AdaptIdle
    /\ BootIdle
    /\ BatchIdle
    /\ DiscIdle
    /\ cache = EmptyCache.cache
    /\ by_capability = EmptyCache.by_capability
    /\ by_state = EmptyCache.by_state
    /\ hit_count = [n \in CacheIds |-> 0]
    /\ miss_count = [n \in CacheIds |-> 0]
    /\ availability_score = [n \in CacheIds |-> ScoreOne]
    /\ cache_order = <<>>
    /\ cache_max_size \in {0, MaxScoreIds}
    /\ stats_hits = 0
    /\ rpcs = 0
    /\ discovered = <<>>
    /\ add_result = "none"
    /\ evicted = NoEviction

RECURSIVE Uses(_)
\* the hits and misses the cached nodes have counted together
Uses(ids) ==
    IF ids = {} THEN 0
    ELSE LET n == CHOOSE x \in ids : TRUE
         IN hit_count[n] + miss_count[n] + Uses(ids \ {n})

\* NodeCache.add, what it does to the cache
ScoreAddStep(node_info) ==
    /\ SetCache(Admitted(TheScored, node_info).k)
    /\ SetScores(Admitted(TheScored, node_info).sc)
    /\ UNCHANGED <<now, cache_max_size, stats_hits, rpcs, discovered, scoreRest>>

\* NodeCache.add by a caller that drops what it returns
ScoreAdd(node_info) ==
    /\ ScoreAddStep(node_info)
    /\ UNCHANGED <<add_result, evicted>>

\* NodeCache.add, with what it returned and what it evicted written down
ScoreAddRecorded(node_info) ==
    /\ ScoreAddStep(node_info)
    /\ add_result' = Admitted(TheScored, node_info).returned
    /\ evicted' = Admitted(TheScored, node_info).evicted

\* NodeCache.get of a cached id: an expired entry is removed, any other is a hit
ScoreGet(node_id) ==
    /\ cache[node_id] # NotCached
    /\ Uses(CacheIds) < MaxUses
    /\ stats_hits < MaxStatsHits
    /\ IF CachedExpired(cache[node_id])
          THEN /\ SetCache(Removed(TheCache, node_id))
               /\ SetScores(Forgotten(TheScores, node_id))
               /\ UNCHANGED stats_hits
          ELSE /\ hit_count' = [hit_count EXCEPT ![node_id] = @ + 1]
               /\ stats_hits' = stats_hits + 1
               /\ UNCHANGED <<cache, by_capability, by_state, miss_count,
                              availability_score, cache_order>>
    /\ UNCHANGED <<now, cache_max_size, rpcs, discovered, add_result, evicted, scoreRest>>

\* NodeCache.mark_unavailable of a cached id
MarkUnavailable(node_id) ==
    /\ cache[node_id] # NotCached
    /\ Uses(CacheIds) < MaxUses
    /\ miss_count' = [miss_count EXCEPT ![node_id] = @ + 1]
    /\ availability_score' = [availability_score EXCEPT ![node_id] =
          update_availability_score(hit_count[node_id], miss_count[node_id] + 1, @)]
    /\ UNCHANGED <<cache, by_capability, by_state, hit_count, cache_order, now,
                   cache_max_size, stats_hits, rpcs, discovered, add_result, evicted,
                   scoreRest>>

\* NodeCache.update_verification of a cached id
UpdateVerification(node_id, is_available) ==
    /\ cache[node_id] # NotCached
    /\ Uses(CacheIds) < MaxUses
    /\ LET h == hit_count[node_id] + (IF is_available THEN 1 ELSE 0)
           m == miss_count[node_id] + (IF is_available THEN 0 ELSE 1)
       IN /\ hit_count' = [hit_count EXCEPT ![node_id] = h]
          /\ miss_count' = [miss_count EXCEPT ![node_id] = m]
          /\ availability_score' = [availability_score EXCEPT ![node_id] =
                update_availability_score(h, m, @)]
    /\ UNCHANGED <<cache, by_capability, by_state, cache_order, now, cache_max_size,
                   stats_hits, rpcs, discovered, add_result, evicted, scoreRest>>

\* get_by_capabilities default min_availability_score, in tenths
min_availability_score == 7

\* get_by_capabilities: the ids every required capability's index holds
CandidateIds(required) == {n \in CacheIds : \A r \in required : n \in by_capability[r]}

\* get_by_capabilities: candidates still cached, not expired, scoring enough, ACTIVE
ValidNodes(required) ==
    {n \in CandidateIds(required) :
        /\ cache[n] # NotCached
        /\ ~CachedExpired(cache[n])
        /\ ScoreAtLeast(availability_score[n], min_availability_score)
        /\ cache[n].state = "active"}

\* sequences without repetition over a set of ids
Listings(ids, len) ==
    {q \in [1..len -> ids] : \A i, j \in 1..len : q[i] = q[j] => i = j}

ScoreGreater(a, b) ==
    availability_score[a][1] * availability_score[b][2]
        > availability_score[b][1] * availability_score[a][2]

\* get_by_capabilities: the valid nodes sorted by score, highest first, cut
\* to count; nodes of equal score come in the order the set iteration gave
get_by_capabilities(required, count) ==
    LET valid == ValidNodes(required)
        len == IF Cardinality(valid) < count THEN Cardinality(valid) ELSE count
    IN {q \in Listings(valid, len) :
           /\ \A i, j \in 1..len : i < j => ~ScoreGreater(q[j], q[i])
           /\ \A n \in valid : (\A i \in 1..len : q[i] # n) =>
                                   \A i \in 1..len : ~ScoreGreater(n, q[i])}

\* get_all_active: every cached, unexpired, ACTIVE node, in dict order
get_all_active ==
    SelectSeq(cache_order, LAMBDA n : ~CachedExpired(cache[n]) /\ cache[n].state = "active")

\* discover_nodes raised ValueError
Insufficient == <<-1>>

RequiredCapabilities == {{}, {"qsg", "bg"}}

\* what the discovery strategies behind the cache hand back in one call
FoundNodes == {<<>>} \cup {<<ni>> : ni \in PlainInfos}

\* SmartDiscoveryStrategy.discover_nodes: the cache first; the network only
\* for what the cache left open, every node found added to the cache
SmartDiscover(required, required_count) ==
    /\ \E cached_nodes \in (IF required # {} THEN get_by_capabilities(required, required_count)
                                             ELSE {get_all_active}) :
          IF required_count - Len(cached_nodes) > 0
             THEN /\ rpcs' = rpcs + 1
                  /\ \E new_nodes \in FoundNodes :
                        LET w == IF new_nodes = <<>>
                                    THEN TheScored
                                    ELSE Admitted(TheScored, new_nodes[1])
                            ids == cached_nodes \o [i \in 1..Len(new_nodes) |-> new_nodes[i].node_id]
                        IN /\ SetCache(w.k)
                           /\ SetScores(w.sc)
                           /\ discovered' = IF Len(ids) < required_count THEN Insufficient
                                                                        ELSE ids
             ELSE /\ discovered' = cached_nodes
                  /\ UNCHANGED <<cacheVars, hit_count, miss_count, availability_score,
                                 cache_order, rpcs>>
    /\ UNCHANGED <<now, cache_max_size, stats_hits, add_result, evicted, scoreRest>>

\* the cache and its callers, no entry growing old
NextScore ==
    \/ \E node_info \in PlainInfos : ScoreAddRecorded(node_info)
    \/ \E node_id \in ScoreIds : ScoreGet(node_id)
    \/ \E node_id \in ScoreIds : MarkUnavailable(node_id)
    \/ \E node_id \in ScoreIds, is_available \in BOOLEAN : UpdateVerification(node_id, is_available)

SpecScore == InitScore /\ [][NextScore]_vars

InitSmart == InitScore /\ cache_max_size = MaxScoreIds

\* a cache that is filled, used and ages, then one discover_nodes call
NextSmart ==
    \/ discovered = <<>> /\ \E node_info \in ScoreInfos : ScoreAdd(node_info)
    \/ discovered = <<>> /\ \E node_id \in ScoreIds : MarkUnavailable(node_id)
    \/ discovered = <<>> /\ Tick
    \/ discovered = <<>> /\ \E required \in RequiredCapabilities, required_count \in 1..MaxScoreIds :
          SmartDiscover(required, required_count)

SpecSmart == InitSmart /\ [][NextSmart]_vars

\* the claim's fitting nodes: cached, holding every required capability,
\* scoring at least min_score, ACTIVE, unexpired
Fitting(required) ==
    {n \in Cached(cache) :
        /\ required \subseteq cache[n].capabilities
        /\ ScoreAtLeast(availability_score[n], min_availability_score)
        /\ cache[n].state = "active"
        /\ ~CachedExpired(cache[n])}

\* C23: a discover_nodes call that finds at least required_count fitting
\* nodes in the cache returns exactly required_count ids, issues no outbound
\* call, and raises the cache hit counter by the number of ids returned.
C23_CacheServesWithoutRpc ==
    [][\A required \in RequiredCapabilities \ {{}}, required_count \in 1..MaxScoreIds :
          (SmartDiscover(required, required_count)
              /\ Cardinality(Fitting(required)) >= required_count)
          => /\ Len(discovered') = required_count
             /\ discovered' # Insufficient
             /\ rpcs' = rpcs
             /\ stats_hits' = stats_hits + required_count]_vars

\* C24: every cached node's availability_score equals
\* hit_count / (hit_count + miss_count), 1.0 while it has no miss, and lies
\* in [0, 1].
C24_ScoreIsHitRatio ==
    \A n \in Cached(cache) :
        /\ IF miss_count[n] = 0
              THEN availability_score[n][1] = availability_score[n][2]
              ELSE availability_score[n][1] * (hit_count[n] + miss_count[n])
                       = hit_count[n] * availability_score[n][2]
        /\ availability_score[n][2] > 0
        /\ availability_score[n][1] >= 0
        /\ availability_score[n][1] <= availability_score[n][2]

RECURSIVE Pow2(_)
Pow2(n) == IF n = 0 THEN 1 ELSE 2 * Pow2(n - 1)

DiscIds == 0..(Pow2(MaxIdBits) - 1)

RECURSIVE Xor(_, _)
\* target_int ^ node_int
Xor(a, b) ==
    IF a = 0 /\ b = 0 THEN 0
    ELSE (((a % 2) + (b % 2)) % 2) + 2 * Xor(a \div 2, b \div 2)

\* _get_k_closest_nodes: the nodes sorted by XOR distance to the target, the
\* first k of them
get_k_closest_nodes(nodes, target_id, k) ==
    LET ids == {nodes[i] : i \in 1..Len(nodes)}
        len == IF Cardinality(ids) < k THEN Cardinality(ids) ELSE k
    IN CHOOSE q \in Listings(ids, len) :
          /\ \A i, j \in 1..len : i < j => Xor(target_id, q[i]) < Xor(target_id, q[j])
          /\ \A n \in ids : (\A i \in 1..len : q[i] # n) =>
                               \A i \in 1..len : Xor(target_id, q[i]) < Xor(target_id, n)

\* _get_all_nodes_from_routing_table: every node of every bucket, in the
\* order the buckets hold them
get_all_nodes_from_routing_table == local_table

\* _fallback_local_search
fallback_local_search(target_count, target_id) == get_all_nodes_from_routing_table

\* _iterative_find_node: the routing table alone answers
LocalSuffices(target_count) == Len(local_table) >= target_count

\* what a crawl of the network can hand back: distinct nodes, cut to target_count
CrawlResults(target_count) ==
    UNION {Listings(DiscIds, len) : len \in 0..(IF target_count < 1 THEN target_count ELSE 1)}

discRest == <<leaseVars, workerVars, dhtVars, bobVars, aliceVars, siftVars, cacheVars,
              healthVars, allocVars, scoreVars, batchVars, bootVars, adaptVars, bitsVars, waitVars, taskVars, ownerVars, staleVars, retryVars>>

InitDiscovery ==
    /\ WorkerIdle
    /\ DhtIdle /\ BobIdle /\ AliceIdle /\ SiftIdle /\ CacheIdle /\ HealthIdle
    /\ NodeReady
    /\ RetryIdle
    /\ StaleIdle
    /\ OwnerIdle
    /\ TaskIdle
    /\ WaitIdle
    /\ BitsIdle
    /\ AdaptIdle
    /\ BootIdle
    /\ BatchIdle
    /\ AllocIdle
    /\ ScoreIdle
    /\ local_table = <<>>
    /\ find_target = -1
    /\ find_node_rpcs = 0
    /\ found_nodes = <<>>
    /\ asked = 0
    /\ short_circuit = FALSE

\* the router learns a contact: it goes to the end of its bucket
RouterAddContact(node_id) ==
    /\ \A i \in 1..Len(local_table) : local_table[i] # node_id
    /\ local_table' = Append(local_table, node_id)
    /\ UNCHANGED <<find_target, find_node_rpcs, found_nodes, asked, short_circuit, discRest>>

\* the router drops a contact
RouterRemoveContact(node_id) ==
    /\ \E i \in 1..Len(local_table) : local_table[i] = node_id
    /\ local_table' = SelectSeq(local_table, LAMBDA x : x # node_id)
    /\ UNCHANGED <<find_target, find_node_rpcs, found_nodes, asked, short_circuit, discRest>>

\* discover_nodes_for_roles: _iterative_find_node for twice the required
\* count and a random target; every routing-table node carries every
\* capability and _verify_node_availability returns its argument, so the
\* nodes found are the nodes returned
DiscoverNodesForRoles(required_count) ==
    /\ asked' = required_count
    /\ \E target_id \in DiscIds :
          LET target_count == required_count * 2 IN
          /\ find_target' = target_id
          /\ IF LocalSuffices(target_count)
                THEN /\ found_nodes' = fallback_local_search(target_count, target_id)
                     /\ short_circuit' = TRUE
                     /\ UNCHANGED find_node_rpcs
                ELSE /\ short_circuit' = FALSE
                     /\ IF local_table = <<>>
                           \* no initial peers: nothing is sent, nothing is found
                           THEN /\ found_nodes' = <<>>
                                /\ UNCHANGED find_node_rpcs
                           \* the spider crawl asks at least one initial peer; on an
                           \* exception the local routing table is the answer
                           ELSE /\ find_node_rpcs < MaxFindRpcs
                                /\ find_node_rpcs' = find_node_rpcs + 1
                                /\ found_nodes' \in CrawlResults(target_count)
                                        \cup {fallback_local_search(target_count, target_id)}
    /\ UNCHANGED <<local_table, discRest>>

NextDiscovery ==
    \/ \E node_id \in DiscIds : RouterAddContact(node_id)
    \/ \E node_id \in DiscIds : RouterRemoveContact(node_id)
    \/ \E required_count \in 1..MaxRequired : DiscoverNodesForRoles(required_count)

SpecDiscovery == InitDiscovery /\ [][NextDiscovery]_vars

\* C26: a discovery call made while the local routing table holds at least
\* required_count peers sends no FIND_NODE.
C26_NoFindNodeWhenTableSuffices ==
    [][\A required_count \in 1..MaxRequired :
          (DiscoverNodesForRoles(required_count) /\ Len(local_table) >= required_count)
          => find_node_rpcs' = find_node_rpcs]_vars

\* C27: a discovery call answered from the local routing table alone returns
\* exactly the required_count entries closest to the target by XOR distance,
\* nearest first.
C27_ShortCircuitReturnsClosest ==
    short_circuit => found_nodes = get_k_closest_nodes(local_table, find_target, asked)

(***************************************************************************)
(* HealthCheckManager._execute_batch_health_check: batches under a         *)
(* semaphore, the checks of one batch gathered.                            *)
(***************************************************************************)

\* nodes[i:i + batch_size] for i in range(0, len(nodes), batch_size), by length
BatchLengths(n, size) ==
    [b \in 1..((n + size - 1) \div size) |->
        IF b * size <= n THEN size ELSE n - (b - 1) * size]

\* process_batch before "async with semaphore"
Waiting(len) == [nodes |-> len, at |-> "waiting", checking |-> 0]

\* the semaphore lets anyone in
SemaphoreOpen == TRUE

\* asyncio.Semaphore.acquire returns at once only while the value is positive
SemaphoreFree == semaphore > 0

batchRest == <<leaseVars, workerVars, dhtVars, bobVars, aliceVars, siftVars, cacheVars,
               healthVars, allocVars, scoreVars, discVars, bootVars, adaptVars, bitsVars, waitVars, taskVars, ownerVars, staleVars, retryVars>>

\* the call is entered with a non-empty node list: the batches are cut and one
\* process_batch per batch is handed to gather
InitBatch ==
    /\ WorkerIdle
    /\ DhtIdle /\ BobIdle /\ AliceIdle /\ SiftIdle /\ CacheIdle /\ HealthIdle
    /\ NodeReady
    /\ RetryIdle
    /\ StaleIdle
    /\ OwnerIdle
    /\ TaskIdle
    /\ WaitIdle
    /\ BitsIdle
    /\ AdaptIdle
    /\ BootIdle
    /\ AllocIdle
    /\ ScoreIdle
    /\ DiscIdle
    /\ batch_size \in 1..MaxBatchSize
    /\ concurrent_batches \in 1..MaxConcurrent
    /\ \E n \in 1..MaxBatchNodes :
          batches = [b \in DOMAIN BatchLengths(n, batch_size) |->
                        Waiting(BatchLengths(n, batch_size)[b])]
    /\ semaphore = concurrent_batches
    /\ hc_results = 0

\* process_batch enters the semaphore and gathers one _check_single_node per
\* node of its batch
BatchEnter(b) ==
    /\ batches[b].at = "waiting"
    /\ SemaphoreFree
    /\ semaphore' = semaphore - 1
    /\ batches' = [batches EXCEPT ![b].at = "gathering", ![b].checking = batches[b].nodes]
    /\ UNCHANGED <<batch_size, concurrent_batches, hc_results, batchRest>>

\* one _check_single_node of a gathered batch returns or raises
CheckSingleNodeDone(b) ==
    /\ batches[b].at = "gathering"
    /\ batches[b].checking > 0
    /\ batches' = [batches EXCEPT ![b].checking = @ - 1]
    /\ UNCHANGED <<batch_size, concurrent_batches, semaphore, hc_results, batchRest>>

\* gather has every result: process_batch leaves the semaphore and returns
BatchLeave(b) ==
    /\ batches[b].at = "gathering"
    /\ batches[b].checking = 0
    /\ batches' = [batches EXCEPT ![b].at = "done"]
    /\ semaphore' = semaphore + 1
    /\ hc_results' = hc_results + batches[b].nodes
    /\ UNCHANGED <<batch_size, concurrent_batches, batchRest>>

NextBatch ==
    \/ \E b \in DOMAIN batches : BatchEnter(b)
    \/ \E b \in DOMAIN batches : CheckSingleNodeDone(b)
    \/ \E b \in DOMAIN batches : BatchLeave(b)

SpecBatch == InitBatch /\ [][NextBatch]_vars

\* C28: at most concurrent_batches batches are being processed at any moment,
\* and within one batch at most batch_size node checks run at once.
C28_NestedConcurrencyCaps ==
    /\ Cardinality({b \in DOMAIN batches : batches[b].at = "gathering"}) <= concurrent_batches
    /\ \A b \in DOMAIN batches : batches[b].checking <= batch_size

\* both caps are reached while another batch still waits for the semaphore
C28_Witness ==
    /\ Cardinality({b \in DOMAIN batches : batches[b].at = "gathering"}) = concurrent_batches
    /\ \E b \in DOMAIN batches : batches[b].checking = batch_size /\ batch_size > 1
    /\ \E b \in DOMAIN batches : batches[b].at = "waiting"

(***************************************************************************)
(* BootstrapManager: connection reports and the periodic health check.     *)
(***************************************************************************)

BootNodes == 1..MaxBootNodes

\* failures after which a bootstrap node is marked as unhealthy
UnhealthyFailures == 3

MarkedUnhealthyLate(count) == count > UnhealthyFailures

\* "if node.failure_count >= 3"
MarkedUnhealthy(count) == count >= UnhealthyFailures

bootRest == <<state, current_role, capabilities, lock, cpc, carg, cret,
              workerVars, dhtVars, bobVars, aliceVars, siftVars, cacheVars, healthVars,
              allocVars, scoreVars, discVars, batchVars, adaptVars, bitsVars, waitVars, taskVars, ownerVars, staleVars, retryVars>>

\* BootstrapNode defaults: healthy, no failure, never checked
InitBootstrap ==
    /\ WorkerIdle
    /\ DhtIdle /\ BobIdle /\ AliceIdle /\ SiftIdle /\ CacheIdle /\ HealthIdle
    /\ NodeReady
    /\ RetryIdle
    /\ StaleIdle
    /\ OwnerIdle
    /\ TaskIdle
    /\ WaitIdle
    /\ BitsIdle
    /\ AdaptIdle
    /\ AllocIdle
    /\ ScoreIdle
    /\ DiscIdle
    /\ BatchIdle
    /\ failure_count = [n \in BootNodes |-> 0]
    /\ is_healthy = [n \in BootNodes |-> TRUE]
    /\ last_health_check = [n \in BootNodes |-> 0]
    /\ since_success = [n \in BootNodes |-> 0]
    /\ last_report = [n \in BootNodes |-> "none"]

\* report_connection_success (connection_count, a load metric, is left out)
ReportConnectionSuccess(n) ==
    /\ failure_count' = [failure_count EXCEPT ![n] = 0]
    /\ is_healthy' = [is_healthy EXCEPT ![n] = TRUE]
    /\ last_health_check' = [last_health_check EXCEPT ![n] = now]
    /\ since_success' = [since_success EXCEPT ![n] = 0]
    /\ last_report' = [last_report EXCEPT ![n] = "success"]
    /\ UNCHANGED <<now, bootRest>>

\* report_connection_failure
ReportConnectionFailure(n) ==
    /\ failure_count[n] < MaxBootFailures
    /\ failure_count' = [failure_count EXCEPT ![n] = @ + 1]
    /\ is_healthy' = [is_healthy EXCEPT ![n] =
                         IF MarkedUnhealthy(failure_count[n] + 1) THEN FALSE ELSE @]
    /\ since_success' = [since_success EXCEPT ![n] = @ + 1]
    /\ last_report' = [last_report EXCEPT ![n] = "failure"]
    /\ UNCHANGED <<last_health_check, now, bootRest>>

\* _perform_health_checks: every node is re-marked from its failure_count
PerformHealthChecks ==
    /\ \E n \in BootNodes : last_health_check[n] # now
    /\ is_healthy' = [n \in BootNodes |->
          IF MarkedUnhealthy(failure_count[n]) THEN FALSE
          ELSE IF failure_count[n] = 0 /\ now - last_health_check[n] > HealthCheckAge THEN TRUE
          ELSE is_healthy[n]]
    /\ last_health_check' = [n \in BootNodes |-> now]
    /\ UNCHANGED <<failure_count, since_success, last_report, now, bootRest>>

NextBootstrap ==
    \/ \E n \in BootNodes : ReportConnectionSuccess(n)
    \/ \E n \in BootNodes : ReportConnectionFailure(n)
    \/ PerformHealthChecks
    \/ Tick

SpecBootstrap == InitBootstrap /\ [][NextBootstrap]_vars

\* C29: a bootstrap node is unhealthy exactly when at least 3 failures were
\* reported for it since its last success; after a success report, and until
\* the next failure report, its failure_count is 0 and it is healthy.
C29_UnhealthyIffThreeFailures ==
    \A n \in BootNodes :
        /\ ~is_healthy[n] <=> since_success[n] >= 3
        /\ last_report[n] = "success" => (failure_count[n] = 0 /\ is_healthy[n])

\* one node is healthy after a success report made at a later tick, while
\* another is unhealthy after exactly three failures in a row
C29_Witness ==
    \E n, m \in BootNodes :
        /\ last_report[n] = "success" /\ is_healthy[n] /\ last_health_check[n] > 0
        /\ ~is_healthy[m] /\ since_success[m] = 3

(***************************************************************************)
(* Settings.calculate_adaptive_kademlia_params under the configured        *)
(* defaults. Timeouts are in tenths of a second, factors in tenths.        *)
(***************************************************************************)

enable_adaptive_kademlia == TRUE
small_network_threshold == 15
medium_network_threshold == 50
large_network_threshold == 100
base_alpha == 3
base_k == 20
base_query_timeout == 50
alpha_scaling_factor == 15
k_scaling_factor == 13
max_alpha == 8
max_k == 40
max_query_timeout == 200
max_discovery_time == 60
max_discovery_timeout == 180

NetworkSizes == 0..MaxNetworkSize

\* Python's min
Min(a, b) == IF a < b THEN a ELSE b

\* the thresholds read with "<" in place of "<="
get_network_category_strict(size) ==
    IF size < small_network_threshold THEN "small"
    ELSE IF size < medium_network_threshold THEN "medium"
    ELSE IF size < large_network_threshold THEN "large"
    ELSE "xlarge"

\* _get_network_category
get_network_category(size) ==
    IF size <= small_network_threshold THEN "small"
    ELSE IF size <= medium_network_threshold THEN "medium"
    ELSE IF size <= large_network_threshold THEN "large"
    ELSE "xlarge"

\* calculate_adaptive_kademlia_params; int() of a positive product truncates
calculate_adaptive_kademlia_params(size) ==
    IF ~enable_adaptive_kademlia
       THEN [alpha |-> base_alpha, k |-> base_k, query_timeout |-> base_query_timeout,
             discovery_timeout |-> max_discovery_time, network_size |-> size,
             adaptive_enabled |-> FALSE, network_category |-> "none"]
    ELSE LET scaled ==
                IF size <= small_network_threshold
                   THEN [alpha |-> base_alpha, k |-> base_k,
                         query_timeout |-> base_query_timeout, discovery_timeout |-> 60]
                ELSE IF size <= medium_network_threshold
                   THEN [alpha |-> Min(max_alpha, (base_alpha * alpha_scaling_factor) \div 10),
                         k |-> Min(max_k, (base_k * k_scaling_factor) \div 10),
                         query_timeout |-> Min(max_query_timeout, (base_query_timeout * 16) \div 10),
                         discovery_timeout |-> 90]
                ELSE IF size <= large_network_threshold
                   THEN [alpha |-> Min(max_alpha, (base_alpha * alpha_scaling_factor * 2) \div 10),
                         k |-> Min(max_k, (base_k * k_scaling_factor * 15) \div 100),
                         query_timeout |-> Min(max_query_timeout, (base_query_timeout * 24) \div 10),
                         discovery_timeout |-> 120]
                ELSE [alpha |-> max_alpha, k |-> max_k, query_timeout |-> max_query_timeout,
                      discovery_timeout |-> max_discovery_timeout]
         IN [alpha |-> scaled.alpha, k |-> scaled.k, query_timeout |-> scaled.query_timeout,
             discovery_timeout |-> scaled.discovery_timeout, network_size |-> size,
             adaptive_enabled |-> TRUE, network_category |-> get_network_category(size)]

adaptRest == <<leaseVars, workerVars, dhtVars, bobVars, aliceVars, siftVars, cacheVars,
               healthVars, allocVars, scoreVars, discVars, batchVars, bootVars, bitsVars, waitVars, taskVars, ownerVars, staleVars, retryVars>>

InitAdaptive ==
    /\ WorkerIdle
    /\ DhtIdle /\ BobIdle /\ AliceIdle /\ SiftIdle /\ CacheIdle /\ HealthIdle
    /\ NodeReady
    /\ RetryIdle
    /\ StaleIdle
    /\ OwnerIdle
    /\ TaskIdle
    /\ WaitIdle
    /\ BitsIdle
    /\ AllocIdle
    /\ ScoreIdle
    /\ DiscIdle
    /\ BatchIdle
    /\ BootIdle
    /\ network_size = 0
    /\ adaptive_params = <<>>

\* one call of the function
CalculateAdaptive(size) ==
    /\ network_size' = size
    /\ adaptive_params' = calculate_adaptive_kademlia_params(size)
    /\ UNCHANGED adaptRest

NextAdaptive == \E size \in NetworkSizes : CalculateAdaptive(size)

SpecAdaptive == InitAdaptive /\ [][NextAdaptive]_vars

\* C30: the category returned matches the thresholds; alpha, k and
\* query_timeout lie between their base and their maximum; alpha does not
\* decrease with the network size; up to the small threshold alpha, k and
\* query_timeout are the base values.
C30_AdaptiveParamsWithinBounds ==
    adaptive_params # <<>> =>
        /\ adaptive_params.network_category = "small" <=>
              network_size <= small_network_threshold
        /\ adaptive_params.network_category = "medium" <=>
              (network_size > small_network_threshold
                  /\ network_size <= medium_network_threshold)
        /\ adaptive_params.network_category = "large" <=>
              (network_size > medium_network_threshold
                  /\ network_size <= large_network_threshold)
        /\ adaptive_params.network_category = "xlarge" <=>
              network_size > large_network_threshold
        /\ base_alpha <= adaptive_params.alpha /\ adaptive_params.alpha <= max_alpha
        /\ base_k <= adaptive_params.k /\ adaptive_params.k <= max_k
        /\ base_query_timeout <= adaptive_params.query_timeout
        /\ adaptive_params.query_timeout <= max_query_timeout
        /\ \A smaller \in 0..network_size :
              calculate_adaptive_kademlia_params(smaller).alpha <= adaptive_params.alpha
        /\ network_size <= small_network_threshold =>
              /\ adaptive_params.alpha = base_alpha
              /\ adaptive_params.k = base_k
              /\ adaptive_params.query_timeout = base_query_timeout

\* a large network: alpha capped at its maximum, k scaled but below its maximum
C30_Witness ==
    /\ adaptive_params # <<>>
    /\ network_size = large_network_threshold
    /\ adaptive_params.network_category = "large"
    /\ adaptive_params.alpha = max_alpha
    /\ adaptive_params.k > base_k /\ adaptive_params.k < max_k

(***************************************************************************)
(* KeyGenerationOrchestrator.bits_to_bytes and bytes_to_bits.              *)
(***************************************************************************)

BitLists == UNION {[1..n -> {0, 1}] : n \in 0..MaxBits}

NotConverted == <<-1>>

\* "while len(bits_copy) % 8 != 0: bits_copy.append(0)"
RECURSIVE PadToByte(_)
PadToByte(bits) == IF Len(bits) % 8 = 0 THEN bits ELSE PadToByte(Append(bits, 0))

\* "byte = (byte << 1) | bits_copy[i + j]" for j in range(8), from byte = 0
RECURSIVE ShiftedIn(_, _, _)
ShiftedIn(bits, i, j) ==
    IF j = 0 THEN 0 ELSE ShiftedIn(bits, i, j - 1) * 2 + bits[i + j]

\* bits_to_bytes: one byte per group of 8 padded bits
bits_to_bytes(bits) ==
    LET bits_copy == PadToByte(bits)
    IN [b \in 1..(Len(bits_copy) \div 8) |-> ShiftedIn(bits_copy, (b - 1) * 8, 8)]

\* the bits of a byte counted from the low end
BitFromLow(byte, i) == (byte \div Pow2(7 - i)) % 2

\* "(byte >> i) & 1"
BitAt(byte, i) == (byte \div Pow2(i)) % 2

\* bytes_to_bits: for every byte, i from 7 down to 0
bytes_to_bits(data) ==
    [p \in 1..(8 * Len(data)) |-> BitAt(data[((p - 1) \div 8) + 1], 7 - ((p - 1) % 8))]

bitsRest == <<leaseVars, workerVars, dhtVars, bobVars, aliceVars, siftVars, cacheVars,
              healthVars, allocVars, scoreVars, discVars, batchVars, bootVars, adaptVars, waitVars, taskVars, ownerVars, staleVars, retryVars>>

InitBits ==
    /\ WorkerIdle
    /\ DhtIdle /\ BobIdle /\ AliceIdle /\ SiftIdle /\ CacheIdle /\ HealthIdle
    /\ NodeReady
    /\ RetryIdle
    /\ StaleIdle
    /\ OwnerIdle
    /\ TaskIdle
    /\ WaitIdle
    /\ AllocIdle
    /\ ScoreIdle
    /\ DiscIdle
    /\ BatchIdle
    /\ BootIdle
    /\ AdaptIdle
    /\ bits_in \in BitLists
    /\ packed = NotConverted
    /\ unpacked = NotConverted

BitsToBytes ==
    /\ packed = NotConverted
    /\ packed' = bits_to_bytes(bits_in)
    /\ UNCHANGED <<bits_in, unpacked, bitsRest>>

BytesToBits ==
    /\ packed # NotConverted
    /\ unpacked = NotConverted
    /\ unpacked' = bytes_to_bits(packed)
    /\ UNCHANGED <<bits_in, packed, bitsRest>>

NextBits == BitsToBytes \/ BytesToBits

SpecBits == InitBits /\ [][NextBits]_vars

\* the i-th bit (from 0) of the list continued with zeros
BitOrZero(i) == IF i < Len(bits_in) THEN bits_in[i + 1] ELSE 0

RECURSIVE WeightedSum(_, _)
\* the sum of bit_i * 2^(7 - (i mod 8)) over the first n bits of group b
WeightedSum(b, n) ==
    IF n = 0 THEN 0
    ELSE WeightedSum(b, n - 1) + BitOrZero(8 * b + n - 1) * Pow2(7 - ((n - 1) % 8))

\* C31: bits_to_bytes packs each group of 8 bits MSB-first, the last group
\* filled with zeros, and bytes_to_bits of the result is the bit list followed
\* by zeros up to the next multiple of 8.
C31_PackRoundTrip ==
    /\ packed # NotConverted =>
          /\ Len(packed) = (Len(bits_in) + 7) \div 8
          /\ \A b \in 1..Len(packed) : packed[b] = WeightedSum(b - 1, 8)
    /\ unpacked # NotConverted =>
          /\ Len(unpacked) = 8 * ((Len(bits_in) + 7) \div 8)
          /\ \A p \in 1..Len(unpacked) : unpacked[p] = BitOrZero(p - 1)

\* a list of more than 8 bits, its last bit 1, has gone there and back
C31_Witness ==
    /\ unpacked # NotConverted
    /\ Len(bits_in) > 8
    /\ bits_in[Len(bits_in)] = 1
    /\ bits_in[1] = 0
    /\ Len(unpacked) = 16

(***************************************************************************)
(* The polling loops on DHT keys: Alice's, Bob's and the handlers'.        *)
(***************************************************************************)

\* range(timeout * 2) with timeout=30, Alice._wait_for_result
alice_result_attempts == 60
\* range(120), Alice._wait_for_qpc_sifting
alice_sifting_attempts == 120
\* range(60), Bob._wait_for_alice_notification
bob_notification_attempts == 60
\* range(timeout * 2) with timeout=30, Bob._collect_bob_bases
bob_bases_attempts == 60
\* range(timeout * 2) with timeout=60, Bob._collect_measurements
bob_measurements_attempts == 120
\* range(120), Bob._wait_for_qpc_sifting
bob_sifting_attempts == 120
\* range(timeout * 10) with timeout=60, QuantumPhotonMeter._wait_for_data
qpm_data_attempts == 600
\* range(timeout * 10) with timeout=60, QuantumPhotonPolarizer._wait_for_data
qpp_data_attempts == 600
\* range(240), QuantumPhotonCollider.execute
qpc_measurement_attempts == 240

AliceWaits == {"alice_wait_for_result", "alice_wait_for_qpc_sifting"}
BobWaits == {"bob_wait_for_alice_notification", "bob_collect_bob_bases",
             "bob_collect_measurements", "bob_wait_for_qpc_sifting"}
HandlerWaits == {"qpm_wait_for_data", "qpp_wait_for_data"}
Waits == AliceWaits \cup BobWaits \cup HandlerWaits \cup {"qpc_execute"}

AttemptCap(w) ==
    CASE w = "alice_wait_for_result" -> alice_result_attempts
      [] w = "alice_wait_for_qpc_sifting" -> alice_sifting_attempts
      [] w = "bob_wait_for_alice_notification" -> bob_notification_attempts
      [] w = "bob_collect_bob_bases" -> bob_bases_attempts
      [] w = "bob_collect_measurements" -> bob_measurements_attempts
      [] w = "bob_wait_for_qpc_sifting" -> bob_sifting_attempts
      [] w = "qpm_wait_for_data" -> qpm_data_attempts
      [] w = "qpp_wait_for_data" -> qpp_data_attempts
      [] w = "qpc_execute" -> qpc_measurement_attempts

\* a loop with no end of its range
RangeUnbounded(w) == FALSE

\* "for attempt in range(...)" has run through its range
RangeExhausted(w) == wait_attempt = AttemptCap(w)

waitRest == <<leaseVars, workerVars, dhtVars, bobVars, aliceVars, siftVars, cacheVars,
              healthVars, allocVars, scoreVars, discVars, batchVars, bootVars, adaptVars,
              bitsVars, taskVars, ownerVars, staleVars, retryVars>>

InitWait ==
    /\ WorkerIdle
    /\ DhtIdle /\ BobIdle /\ AliceIdle /\ SiftIdle /\ CacheIdle /\ HealthIdle
    /\ NodeReady
    /\ RetryIdle
    /\ StaleIdle
    /\ OwnerIdle
    /\ TaskIdle
    /\ AllocIdle
    /\ ScoreIdle
    /\ DiscIdle
    /\ BatchIdle
    /\ BootIdle
    /\ AdaptIdle
    /\ BitsIdle
    /\ wait_loop \in Waits
    /\ wait_attempt = 0
    /\ wait_key = FALSE
    /\ wait_outcome = "waiting"
    /\ wait_session = "running"

\* the producer of the key stores it
ProducerStores ==
    /\ wait_outcome = "waiting"
    /\ ~wait_key
    /\ wait_key' = TRUE
    /\ UNCHANGED <<wait_loop, wait_attempt, wait_outcome, wait_session, waitRest>>

\* one pass of the loop: retrieve_data finds nothing, sleep(0.5)
PollNothing ==
    /\ wait_outcome = "waiting"
    /\ ~RangeExhausted(wait_loop)
    /\ ~wait_key
    /\ wait_attempt' = wait_attempt + 1
    /\ UNCHANGED <<wait_loop, wait_key, wait_outcome, wait_session, waitRest>>

\* one pass of the loop: retrieve_data finds the value, which is returned
\* (QPC: appended, break)
PollFound ==
    /\ wait_outcome = "waiting"
    /\ ~RangeExhausted(wait_loop)
    /\ wait_key
    /\ wait_outcome' = "returned"
    /\ wait_session' = "continues"
    /\ UNCHANGED <<wait_loop, wait_attempt, wait_key, waitRest>>

\* after the loop: "raise TimeoutError(...)", which generate_key and
\* receive_key log and re-raise and which fails a worker's command; QPC's
\* "else:" branch appends {operation_id, bases_match: False} and goes on
AfterLoop ==
    /\ wait_outcome = "waiting"
    /\ RangeExhausted(wait_loop)
    /\ wait_outcome' = IF wait_loop = "qpc_execute" THEN "placeholder" ELSE "TimeoutError"
    /\ wait_session' = IF wait_loop = "qpc_execute" THEN "continues"
                       ELSE IF wait_loop \in HandlerWaits THEN "command_failed"
                       ELSE "aborted"
    /\ UNCHANGED <<wait_loop, wait_attempt, wait_key, waitRest>>

NextWait == ProducerStores \/ PollNothing \/ PollFound \/ AfterLoop

SpecWait == InitWait /\ [][NextWait]_vars

C33_SessionKeyWrittenOnce ==
    [][HandlerWrite =>
          <<command.process_id, HandlerKeys(command.role)[hstep]>> \notin written]_vars

\* C34: the list discover_nodes returns holds each node id at most once.
C34_DiscoveredIdsDistinct ==
    discovered # Insufficient =>
        \A i, j \in 1..Len(discovered) : i # j => discovered[i] # discovered[j]

(***************************************************************************)
(* SmartDiscoveryStrategy.start_background_tasks / stop_background_tasks   *)
(* and the orchestrator's use of them.                                     *)
(***************************************************************************)

taskRest == <<leaseVars, workerVars, dhtVars, bobVars, aliceVars, siftVars, cacheVars,
              healthVars, allocVars, scoreVars, discVars, batchVars, bootVars, adaptVars,
              bitsVars, waitVars, ownerVars, staleVars, retryVars>>

InitTasks ==
    /\ WorkerIdle
    /\ DhtIdle /\ BobIdle /\ AliceIdle /\ SiftIdle /\ CacheIdle /\ HealthIdle
    /\ NodeReady
    /\ RetryIdle
    /\ StaleIdle
    /\ OwnerIdle
    /\ AllocIdle
    /\ ScoreIdle
    /\ DiscIdle
    /\ BatchIdle
    /\ BootIdle
    /\ AdaptIdle
    /\ BitsIdle
    /\ WaitIdle
    /\ has_cache \in BOOLEAN
    /\ bg_tasks = <<>>
    /\ refresh_handle = 0
    /\ cleanup_handle = 0
    /\ bg_started = FALSE
    /\ bg_stopped = FALSE

\* start_background_tasks, body: with a cache, two tasks are created and
\* assigned to _refresh_task and _cleanup_task
start_background_tasks ==
    IF has_cache
       THEN /\ bg_tasks' = Append(bg_tasks, [refresh |-> "running", cleanup |-> "running"])
            /\ refresh_handle' = Len(bg_tasks) + 1
            /\ cleanup_handle' = Len(bg_tasks) + 1
       ELSE UNCHANGED <<bg_tasks, refresh_handle, cleanup_handle>>

\* Task.cancel(): a task that is not done is asked to stop
Cancelled(st) == IF st = "running" THEN "cancelling" ELSE st

\* stop_background_tasks, body: the tasks the two attributes name are cancelled
stop_background_tasks ==
    /\ bg_tasks' = [t \in 1..Len(bg_tasks) |->
          [refresh |-> IF t = refresh_handle THEN Cancelled(bg_tasks[t].refresh)
                                             ELSE bg_tasks[t].refresh,
           cleanup |-> IF t = cleanup_handle THEN Cancelled(bg_tasks[t].cleanup)
                                             ELSE bg_tasks[t].cleanup]]
    /\ UNCHANGED <<refresh_handle, cleanup_handle>>

\* a caller of SmartDiscoveryStrategy.start_background_tasks
StartBackgroundTasks ==
    /\ Len(bg_tasks) < MaxTasks
    /\ start_background_tasks
    /\ bg_stopped' = FALSE
    /\ UNCHANGED <<has_cache, bg_started, taskRest>>

\* a caller of SmartDiscoveryStrategy.stop_background_tasks
StopBackgroundTasks ==
    /\ stop_background_tasks
    /\ bg_stopped' = TRUE
    /\ UNCHANGED <<has_cache, bg_started, taskRest>>

\* KeyGenerationOrchestrator._ensure_background_tasks_started
EnsureBackgroundTasksStarted ==
    /\ ~bg_started
    /\ Len(bg_tasks) < MaxTasks
    /\ start_background_tasks
    /\ bg_started' = TRUE
    /\ bg_stopped' = FALSE
    /\ UNCHANGED <<has_cache, taskRest>>

\* KeyGenerationOrchestrator.stop
OrchestratorStop ==
    /\ bg_started
    /\ stop_background_tasks
    /\ bg_started' = FALSE
    /\ bg_stopped' = TRUE
    /\ UNCHANGED <<has_cache, taskRest>>

\* _periodic_refresh / _periodic_cleanup: "except asyncio.CancelledError: break"
TaskEnds(t, which) ==
    /\ bg_tasks[t][which] = "cancelling"
    /\ bg_tasks' = [bg_tasks EXCEPT ![t][which] = "done"]
    /\ UNCHANGED <<has_cache, refresh_handle, cleanup_handle, bg_started, bg_stopped, taskRest>>

NextTasks ==
    \/ StartBackgroundTasks
    \/ StopBackgroundTasks
    \/ EnsureBackgroundTasksStarted
    \/ OrchestratorStop
    \/ \E t \in 1..Len(bg_tasks), which \in {"refresh", "cleanup"} : TaskEnds(t, which)

SpecTasks == InitTasks /\ [][NextTasks]_vars

Running(which) == {t \in 1..Len(bg_tasks) : bg_tasks[t][which] = "running"}

\* C35: at any time at most one periodic-refresh task and at most one
\* periodic-cleanup task is running, and when stop_background_tasks was the
\* last call none is.
C35_OneTaskEachNoneAfterStop ==
    /\ Cardinality(Running("refresh")) <= 1
    /\ Cardinality(Running("cleanup")) <= 1
    /\ bg_stopped => (Running("refresh") = {} /\ Running("cleanup") = {})

(***************************************************************************)
(* The lease API with the holder of the lease written down.                *)
(***************************************************************************)

ownerRest == <<workerVars, dhtVars, bobVars, aliceVars, siftVars, cacheVars,
               healthVars, allocVars, scoreVars, discVars, batchVars, bootVars, adaptVars,
               bitsVars, waitVars, taskVars, staleVars, retryVars>>

\* request_role's body; a grant makes the caller the holder
RequestBodyOwned(c) ==
    /\ RequestBodyStep(c)
    /\ holder' = IF cret'[c] = "true" THEN c ELSE holder
    /\ UNCHANGED ownerRest

\* release_role's body
ReleaseBodyOwned(c) ==
    /\ ReleaseBodyStep(c)
    /\ holder' = "none"
    /\ UNCHANGED ownerRest

\* stop's body
StopBodyOwned(c) ==
    /\ StopBodyStep(c)
    /\ holder' = "none"
    /\ UNCHANGED ownerRest

NextOwner ==
    \/ \E c \in Contexts : Start(c)
    \/ \E c \in Contexts : CallRequestRole(c)
    \/ \E c \in Contexts : RequestAcquire(c)
    \/ \E c \in Contexts : RequestBodyOwned(c)
    \/ \E c \in Contexts : CallReleaseRole(c)
    \/ \E c \in Contexts : ReleaseAcquire(c)
    \/ \E c \in Contexts : ReleaseBodyOwned(c)
    \/ \E c \in Contexts : CallStop(c)
    \/ \E c \in Contexts : StopBodyOwned(c)
    \/ Tick

SpecOwner == InitLease /\ [][NextOwner]_vars

\* C36: a release_role call never removes an unexpired lease that another
\* context holds: when the caller is not the holder, current_role is the same
\* after the call.
C36_ReleaseOnlyByHolder ==
    [][\A c \in Contexts :
          (cpc[c] = "release_body" /\ cpc'[c] = "idle" /\ RoleHeld /\ holder # c)
              => current_role' = current_role]_vars

(***************************************************************************)
(* Commands under cmd:{node_id} and the worker that polls the key.         *)
(***************************************************************************)

\* the worker has taken the command from the key at some time
Polled(cmd) ==
    \/ cmd = command
    \/ cmd \in marked
    \/ cmd \in raised
    \/ cmd = cancelled_cmd

\* C37: while the worker is live and polling, every command that was written
\* to its key is still under the key or has been taken by the worker: no
\* command is replaced before the worker has polled it (a command gone from
\* the key unpolled can never be executed).
C37_NoCommandLostUnpolled ==
    (running /\ wpc # "returned") =>
        \A cmd \in dispatched : cmd = dht_cmd \/ Polled(cmd)

(***************************************************************************)
(* Bob's listener when the notification comes late.                        *)
(***************************************************************************)

staleRest == <<siftVars, cacheVars, healthVars, allocVars, scoreVars, discVars, batchVars,
               bootVars, adaptVars, bitsVars, waitVars, taskVars, ownerVars, retryVars>>

\* BobValidate with the ids logged as stale written down
BobValidateRecorded ==
    /\ BobValidateStep
    /\ stale' = IF bpc' = "poll" THEN stale \cup {bob_pid.n} ELSE stale
    /\ UNCHANGED <<leaseVars, workerVars, dhtVars, aliceVars, staleRest>>

NextBobLate ==
    \/ AlicePublish
    \/ \E s \in Sessions : AliceNotify(s)
    \/ BobPoll
    \/ BobValidateRecorded
    \/ BobReceiveDone

\* Bob's script is a running coroutine: each of its steps is taken in time
SpecBobLate ==
    /\ InitBob
    /\ [][NextBobLate]_vars
    /\ WF_vars(BobPoll)
    /\ WF_vars(BobValidateRecorded)
    /\ WF_vars(BobReceiveDone)

\* session s is the published id, Bob has logged it as stale, and its
\* notification is in the DHT now
LateNotified(s) ==
    /\ store[ProcessIdKey] = value_to_store(Pid(s))
    /\ s \in stale
    /\ NotificationSeen(Pid(s))

C39_DoneHoldsLcBits == apc = "returned" => final_key_bits = lc

(***************************************************************************)
(* NodeDiscoveryService._retry_discovery_with_aggressive_params.           *)
(***************************************************************************)

Max(a, b) == IF a >= b THEN a ELSE b

TargetCounts == {1, MaxTargetCount}

retryRest == <<leaseVars, workerVars, dhtVars, bobVars, aliceVars, siftVars, cacheVars,
               healthVars, allocVars, scoreVars, discVars, batchVars, bootVars, adaptVars,
               bitsVars, waitVars, taskVars, ownerVars, staleVars>>

InitRetry ==
    /\ WorkerIdle
    /\ DhtIdle /\ BobIdle /\ AliceIdle /\ SiftIdle /\ CacheIdle /\ HealthIdle
    /\ NodeReady
    /\ AllocIdle
    /\ ScoreIdle
    /\ DiscIdle
    /\ BatchIdle
    /\ BootIdle
    /\ AdaptIdle
    /\ BitsIdle
    /\ WaitIdle
    /\ TaskIdle
    /\ OwnerIdle
    /\ StaleIdle
    /\ ALPHA = DefaultAlpha
    /\ K = DefaultK
    /\ rpc = [c \in RetryCalls |-> "idle"]
    /\ original_alpha = [c \in RetryCalls |-> 0]
    /\ original_k = [c \in RetryCalls |-> 0]
    /\ retry_result = [c \in RetryCalls |-> "none"]

\* the call up to its first suspension: the attributes are saved and made
\* aggressive; without initial peers they are put back and [] is returned,
\* otherwise the call awaits spider.find()
RetryEnter(c, target_count, initial_peers) ==
    /\ rpc[c] \in {"idle", "returned"}
    /\ original_alpha' = [original_alpha EXCEPT ![c] = ALPHA]
    /\ original_k' = [original_k EXCEPT ![c] = K]
    /\ IF initial_peers
          THEN /\ ALPHA' = Min(6, ALPHA * 2)
               /\ K' = Max(target_count * 3, 40)
               /\ rpc' = [rpc EXCEPT ![c] = "crawl"]
               /\ retry_result' = [retry_result EXCEPT ![c] = "none"]
          ELSE /\ UNCHANGED <<ALPHA, K>>
               /\ rpc' = [rpc EXCEPT ![c] = "returned"]
               /\ retry_result' = [retry_result EXCEPT ![c] = "empty"]
    /\ UNCHANGED retryRest

\* spider.find() returns, or wait_for times out, or an exception is raised:
\* on each path the call assigns its saved values and returns
RetryLeave(c, outcome) ==
    /\ rpc[c] = "crawl"
    /\ ALPHA' = original_alpha[c]
    /\ K' = original_k[c]
    /\ rpc' = [rpc EXCEPT ![c] = "returned"]
    /\ retry_result' = [retry_result EXCEPT ![c] = IF outcome = "found" THEN "nodes" ELSE "empty"]
    /\ UNCHANGED <<original_alpha, original_k, retryRest>>

NextRetry ==
    \/ \E c \in RetryCalls, target_count \in TargetCounts, initial_peers \in BOOLEAN :
          RetryEnter(c, target_count, initial_peers)
    \/ \E c \in RetryCalls, outcome \in {"found", "timeout", "raised"} : RetryLeave(c, outcome)

SpecRetry == InitRetry /\ [][NextRetry]_vars

\* C40: whenever no aggressive retry is in progress, ALPHA and K are what
\* they were before the calls began.
C40_ParamsRestored ==
    (\A c \in RetryCalls : rpc[c] # "crawl") => (ALPHA = DefaultAlpha /\ K = DefaultK)

====
